---- MODULE Spec2Model ----
(***************************************************************************)
(* A model of the connection-concurrency engine of the HTTP server:        *)
(* the worker pool (http_lib/thread_pool.rs), the accept loop              *)
(* (lib/server.rs, HttpServer::start) and the per-connection keep-alive    *)
(* loop (lib/server.rs, HttpServer::handle_connection_threaded).           *)
(*                                                                         *)
(* Threads: the listener (HttpServer::start, which is the only caller of   *)
(* ThreadPool::execute in the server), NumWorkers worker threads, and, in  *)
(* SpecMulti only, a second thread that shares the pool and calls execute. *)
(* A step of a thread is one access to shared state (the atomic counter,   *)
(* the channel). A connection is owned by the one worker that runs its     *)
(* job and touches no shared state, so Spec sees the handler only by how   *)
(* it ends, and ConnSpec follows one handler through its rounds of         *)
(* blocking reads and writes.                                              *)
(*                                                                         *)
(* The libraries under the engine are modelled by what they compute:       *)
(* HttpResponse and its two encoders (lib/response.rs, FormatSpec),        *)
(* Router::route with the static-file resolver and the auth endpoints      *)
(* (lib/router.rs, RouteSpec and LoginSpec), and the TokenManager shared   *)
(* by the threads that route requests (lib/auth.rs, TokenSpec).            *)
(***************************************************************************)
EXTENDS Integers, Sequences, FiniteSets, Bags, TLC

\* ------------------------------------------------------------------ bounds
\* size, the number of worker threads given to ThreadPool::new
NumWorkers == 2
\* max_connections given to ThreadPool::new
MaxConnections == 2
\* connections that clients open during a run
NumConns == 4
\* requests a client sends on one connection
MaxRequests == 2
\* the longest body handed to the response builder, in bytes
MaxBodyLen == 26
\* the longest request path, in path tokens
MaxPathLen == 4
\* requests to the auth endpoints and the gate during a run, over all
\* connections
MaxSessionCalls == 3
\* the size of the read buffer (8192 in server.rs line 193)
BufferSize == 4
\* the longest request body of a stream
MaxStreamBody == 2
\* calls of the TokenManager during a run, over all threads
MaxCalls == 3
\* times the clock moves on to a later second during a run
MaxTicks == 2
\* clock readings within one second (as_nanos) after the first
MaxSub == 1
\* The lifetime of a token in seconds, auth.rs line 38.
TokenTtl == 3600
\* The largest value of the model's integers; it stands for usize::MAX, the
\* value an AtomicUsize wraps to when fetch_sub is applied to 0.
UsizeMax == 2147483647

Workers == 1..NumWorkers
Conns == 1..NumConns
Callers == {"listener", "caller2"}

VARIABLES
    active_connections, \* ThreadPool.active_connections (AtomicUsize)
    queue,              \* the mpsc channel: Seq of Message
    wk,                 \* per worker thread: position and locals
    caller,             \* per thread calling execute: position and locals
    drop,               \* progress of Drop for ThreadPool
    job,                \* per connection: what happened to its job (history)
    nextConn,           \* the next connection the listener will accept
    h,                  \* ConnSpec: the locals of one handle_connection_threaded
    fmt,                \* FormatSpec: an HttpResponse under construction and its formatted text
    rt,                 \* RouteSpec, LoginSpec: one call of Router::route
    auth_users,         \* Router.auth_users: username -> stored password hash
    tokens,             \* TokenManager.tokens: token -> AuthToken
    now,                \* the system clock (SystemTime::now)
    th,                 \* TokenSpec: per thread, the TokenManager call it is in
    issued,             \* history: the (token, username) pairs generate_token returned
    revoked,            \* history: the tokens for which revoke_token returned true
    bs                  \* StreamSpec: a BufferedStream, its socket and its caller

vars == <<active_connections, queue, wk, caller, drop, job, nextConn, h,
          fmt, rt, auth_users, tokens, now, th, issued, revoked, bs>>

\* the connection engine: the pool, the listener and the connection loop
serverVars == <<active_connections, queue, wk, caller, drop, job, nextConn, h>>

\* the router's shared state and the clock
authVars == <<auth_users, tokens, now, th, issued, revoked>>

\* everything outside the connection engine
libVars == <<fmt, rt, authVars, bs>>

\* ------------------------------------------------------------ messages
\* enum Message { NewJob(Job), Terminate }
NewJob(c) == [type |-> "NewJob", job |-> c]

Terminate == [type |-> "Terminate", job |-> 0]

\* ------------------------------------------------------------ HTTP values
EmptyMap == [x \in {} |-> ""]

\* str::to_lowercase on the header names and values of the model
ToLower(s) ==
    CASE s = "Keep-Alive" -> "keep-alive"
      [] s = "Close" -> "close"
      [] s = "Connection" -> "connection"
      [] s = "Content-Length" -> "content-length"
      [] s = "Content-Type" -> "content-type"
      [] s = "Transfer-Encoding" -> "transfer-encoding"
      [] s = "TRANSFER-ENCODING" -> "transfer-encoding"
      [] s = "WWW-Authenticate" -> "www-authenticate"
      [] s = "X-Id" -> "x-id"
      [] OTHER -> s

\* str::contains(sub) on the (lowercase or raw) header values of the model
Contains(s, sub) ==
    CASE s = "keep-alive" -> sub = "keep-alive"
      [] s = "close" -> sub = "close"
      [] s = "chunked" -> sub = "chunked"
      [] s = "trailers, chunked" -> sub \in {"chunked", "trailers"}
      [] s = "trailers" -> sub = "trailers"
      [] OTHER -> FALSE

ConnectionValues == {"keep-alive", "Keep-Alive", "close", "Close"}

TeValues == {"chunked", "trailers", "trailers, chunked"}

\* The header maps a parsed request can have (keys lowercased by parse).
RequestHeaders ==
    { (IF c = "absent" THEN EmptyMap ELSE ("connection" :> c))
        @@ (IF t = "absent" THEN EmptyMap ELSE ("te" :> t)) :
        c \in ConnectionValues \cup {"absent"}, t \in TeValues \cup {"absent"} }

\* What a client sends as one request: the number of whitespace-separated
\* tokens of its first line, its version token and its headers.
Requests ==
    [tokens : {0, 1, 3, 4}, version : {"HTTP/1.1", "HTTP/1.0"}, headers : RequestHeaders]

\* HttpRequest::parse succeeds iff the request line has exactly 3 tokens.
ParseOk(req) == req.tokens = 3

\* HttpResponse::new
NewResponse(code, text) ==
    [status_code |-> code, status_text |-> text, headers |-> EmptyMap, body |-> <<>>]

\* HttpResponse::with_header (HashMap::insert: the new value replaces the old)
WithHeader(resp, key, value) ==
    [resp EXCEPT !.headers = (key :> value) @@ resp.headers]

\* with_body taking the length in characters instead of bytes
WithBody_CharCount(resp, body) ==
    [WithHeader(resp, "Content-Length",
                ToString(Cardinality({i \in DOMAIN body : body[i] < 128 \/ body[i] >= 192})))
        EXCEPT !.body = body]

\* HttpResponse::with_body: sets the body and Content-Length
WithBody(resp, body) ==
    [WithHeader(resp, "Content-Length", ToString(Len(body))) EXCEPT !.body = body]

WithContentType(resp, ct) == WithHeader(resp, "Content-Type", ct)

WithChunkedEncoding(resp) == WithHeader(resp, "Transfer-Encoding", "chunked")

WithConnection(resp, v) == WithHeader(resp, "Connection", v)

\* Bodies are sequences of bytes (a Rust String is UTF-8): the empty body,
\* "hi", and one two-byte character stand for all of them.
Bodies == {<<>>, <<104, 105>>, <<195, 169>>}

\* ------------------------------------------------------- the encoders
CRLF == <<13, 10>>

\* "0\r\n\r\n", response.rs line 95
FinalChunk == <<48>> \o CRLF \o CRLF

\* one digit of format!("{:X}")
HexDigit(d) == IF d < 10 THEN 48 + d ELSE 55 + d

\* format!("{:X}", n): the uppercase hexadecimal digits of n, no padding
RECURSIVE UpperHex(_)
UpperHex(n) ==
    IF n < 16 THEN <<HexDigit(n)>> ELSE UpperHex(n \div 16) \o <<HexDigit(n % 16)>>

\* The header lines "key: value\r\n" that the loop over self.headers pushes
\* for the given keys. HashMap iteration has no specified order, so the
\* lines are kept as a bag.
HeaderLines(headers, keys) == SetToBag({<<k, headers[k]>> : k \in keys})

\* HttpResponse::format: status line, every header, blank line, body
Format(resp) ==
    [status_code |-> resp.status_code,
     headers |-> HeaderLines(resp.headers, DOMAIN resp.headers),
     body |-> resp.body,
     chunked |-> FALSE]

\* the chunk written without the is_empty test of line 87
ChunkedBody_NoEmptyTest(body) ==
    UpperHex(Len(body)) \o CRLF \o body \o CRLF \o FinalChunk

\* format_chunked, lines 87-95: one chunk for a non-empty body, then the
\* end marker
ChunkedBody(body) ==
    (IF body # <<>> THEN UpperHex(Len(body)) \o CRLF \o body \o CRLF ELSE <<>>)
        \o FinalChunk

\* HttpResponse::format_chunked
FormatChunked(resp) ==
    [status_code |-> resp.status_code,
     headers |->
        HeaderLines(resp.headers,
                    {k \in DOMAIN resp.headers :
                        ToLower(k) # "content-length" /\ ToLower(k) # "transfer-encoding"})
        (+) SetToBag({<<"Transfer-Encoding", "chunked">>}),
     body |-> ChunkedBody(resp.body),
     chunked |-> TRUE]

\* The responses router.route can hand back to the connection loop: a plain
\* handler response, the /chunked demo response, the router's 404 and the
\* 400 of an auth endpoint.
RouterResponses ==
    { WithBody(WithContentType(NewResponse(200, "OK"), "text/plain"), b) : b \in Bodies }
    \cup { WithBody(WithChunkedEncoding(WithContentType(NewResponse(200, "OK"), "text/plain")), b) :
             b \in Bodies \ {<<>>} }
    \cup { WithBody(WithContentType(NewResponse(404, "Not Found"), "text/html"), <<52, 48, 52>>),
           WithBody(WithContentType(NewResponse(400, "Bad Request"), "application/json"),
                    <<123, 125>>) }

\* lines 238-247: the request's Connection header, lowercased, or the default
\* of its version
ConnectionHeader(req) ==
    IF "connection" \in DOMAIN req.headers
    THEN ToLower(req.headers["connection"])
    ELSE IF req.version = "HTTP/1.1" THEN "keep-alive" ELSE "close"

\* line 249
KeepAlive(req) == Contains(ConnectionHeader(req), "keep-alive")

\* lines 262-264
SupportsChunked(req) ==
    IF "te" \in DOMAIN req.headers THEN Contains(req.headers["te"], "chunked") ELSE TRUE

\* lines 235-280: the response and should_keep_alive for request data
Respond(req, routed) ==
    IF ParseOk(req)
    THEN [response |-> WithConnection(routed, IF KeepAlive(req) THEN "keep-alive" ELSE "close"),
          should_keep_alive |-> KeepAlive(req) /\ SupportsChunked(req)]
    ELSE [response |-> WithBody(WithConnection(WithContentType(
                           NewResponse(400, "Bad Request"), "text/html"), "close"), <<52, 48, 48>>),
          should_keep_alive |-> FALSE]

\* line 283: which encoder formats the response
UsesChunked(r) ==
    r.should_keep_alive /\ "Transfer-Encoding" \in DOMAIN r.response.headers

\* line 303: the loop ends after this response
ShouldClose(r) ==
    \/ ~r.should_keep_alive
    \/ IF "Connection" \in DOMAIN r.response.headers
       THEN Contains(ToLower(r.response.headers["Connection"]), "close")
       ELSE FALSE

\* ------------------------------------------------------------ the pool
IdleWorker == [pc |-> "recv", conn |-> 0, exit |-> "none"]

IdleCaller(t) ==
    [pc |-> IF t = "listener" THEN "accept" ELSE "idle",
     conn |-> 0, stream_clone |-> FALSE, err |-> "none"]

NoJob ==
    [adm |-> "none", sent |-> FALSE, rsp503 |-> "none", runs |-> 0, decs |-> 0,
     end |-> "none"]

NoRequest == [tokens |-> 0, version |-> "", headers |-> EmptyMap]

\* no BufferedStream: the specifications that open no socket
NoStream == [pc |-> "none"]

NoWire == [status_code |-> 0, headers |-> EmptyBag, body |-> <<>>, chunked |-> FALSE]

\* The handler before its first statement.
NewHandler ==
    [pc |-> "start", nread |-> 0, nresp |-> 0, unflushed |-> 0,
     req |-> NoRequest, should_keep_alive |-> FALSE, wire |-> NoWire,
     exit |-> "none", input |-> "none", kind |-> "none",
     writable |-> FALSE, answered |-> FALSE, write_buffer |-> 0, resent |-> 0]

\* Worker threads whose loop is still running: each holds a clone of the
\* Arc around the channel's Receiver.
LiveWorkers == {w \in Workers : wk[w].pc \notin {"terminated", "panicked"}}

\* A panic of the main thread (the listener) ends the process.
ProcessAlive == caller["listener"].pc \notin {"panicked", "drop_panicked"}

\* ThreadPool::new and the listener before its first accept
ServerInit ==
    /\ active_connections = 0
    /\ queue = <<>>
    /\ wk = [w \in Workers |-> IdleWorker]
    /\ caller = [t \in Callers |-> IdleCaller(t)]
    /\ drop = [sent |-> 0, joined |-> 0]
    /\ job = [c \in Conns |-> NoJob]
    /\ nextConn = 1
    /\ h = NewHandler

\* ------------------------------------------------- ThreadPool::execute
AtCapacity_Off(current_connections) == current_connections > MaxConnections

\* thread_pool.rs line 86
AtCapacity(current_connections) == current_connections >= MaxConnections

\* AtomicUsize::fetch_sub(1): wraps below zero
FetchSub(n) == IF n = 0 THEN UsizeMax ELSE n - 1

\* The listener takes the next connection off the accept queue, tries to
\* clone the stream for the rejection case (lines 137-140) and calls execute.
Accept ==
    /\ caller["listener"].pc = "accept"
    /\ nextConn <= NumConns
    /\ \E clone \in BOOLEAN :
         caller' = [caller EXCEPT !["listener"] =
                       [pc |-> "execute", conn |-> nextConn, stream_clone |-> clone,
                        err |-> caller["listener"].err]]
    /\ nextConn' = nextConn + 1
    /\ UNCHANGED <<active_connections, queue, wk, drop, job, h, libVars>>

\* A second thread that shares the pool calls execute with a connection job.
Caller2Submit ==
    /\ caller["caller2"].pc = "idle"
    /\ nextConn <= NumConns
    /\ caller' = [caller EXCEPT !["caller2"] =
                     [pc |-> "execute", conn |-> nextConn, stream_clone |-> FALSE,
                      err |-> "none"]]
    /\ nextConn' = nextConn + 1
    /\ UNCHANGED <<active_connections, queue, wk, drop, job, h, libVars>>

ExecuteLoad_CountsRejected(t) ==
    /\ caller[t].pc = "execute"
    /\ active_connections' = active_connections + 1
    /\ IF AtCapacity(active_connections)
       THEN /\ caller' = [caller EXCEPT ![t].pc = "rejected"]
            /\ job' = [job EXCEPT ![caller[t].conn].adm = "rejected"]
       ELSE /\ caller' = [caller EXCEPT ![t].pc = "send"]
            /\ job' = [job EXCEPT ![caller[t].conn].adm = "admitted"]
    /\ UNCHANGED <<queue, wk, drop, nextConn, h, libVars>>

\* execute, lines 85-88: load the counter; at capacity return Err, and the
\* closure f (which owns the stream) is dropped without being boxed or sent.
ExecuteLoad(t) ==
    /\ caller[t].pc = "execute"
    /\ IF AtCapacity(active_connections)
       THEN /\ caller' = [caller EXCEPT ![t].pc = "rejected"]
            /\ job' = [job EXCEPT ![caller[t].conn].adm = "rejected"]
       ELSE /\ caller' = [caller EXCEPT ![t].pc = "fetch_add"]
            /\ job' = job
    /\ UNCHANGED <<active_connections, queue, wk, drop, nextConn, h, libVars>>

\* execute, line 91: a separate atomic operation after the load
ExecuteFetchAdd(t) ==
    /\ caller[t].pc = "fetch_add"
    /\ active_connections' = active_connections + 1
    /\ caller' = [caller EXCEPT ![t].pc = "send"]
    /\ job' = [job EXCEPT ![caller[t].conn].adm = "admitted"]
    /\ UNCHANGED <<queue, wk, drop, nextConn, h, libVars>>

\* execute, lines 93-101: box the wrapped job and send it. send fails, and
\* its unwrap panics, when every worker thread has ended (the Receiver is
\* dropped with the last clone of its Arc).
ExecuteSend(t) ==
    /\ caller[t].pc = "send"
    /\ IF LiveWorkers = {}
       THEN /\ caller' = [caller EXCEPT ![t] = [IdleCaller(t) EXCEPT !.pc = "panicked"]]
            /\ UNCHANGED <<queue, job>>
       ELSE /\ caller' = [caller EXCEPT ![t] = IdleCaller(t)]
            /\ queue' = Append(queue, NewJob(caller[t].conn))
            /\ job' = [job EXCEPT ![caller[t].conn].sent = TRUE]
    /\ UNCHANGED <<active_connections, wk, drop, nextConn, h, libVars>>

\* start, lines 150-160: the Err arm. The 503 is written only through the
\* clone made before execute; the result of write_all is ignored.
Reject503 ==
    /\ caller["listener"].pc = "rejected"
    /\ \E written \in BOOLEAN :
         job' = [job EXCEPT ![caller["listener"].conn].rsp503 =
                    IF ~caller["listener"].stream_clone THEN "no_clone"
                    ELSE IF written THEN "sent" ELSE "write_failed"]
    /\ caller' = [caller EXCEPT !["listener"] = IdleCaller("listener")]
    /\ UNCHANGED <<active_connections, queue, wk, drop, nextConn, h, libVars>>

\* The second caller gets Err back and goes on.
Caller2Rejected ==
    /\ caller["caller2"].pc = "rejected"
    /\ caller' = [caller EXCEPT !["caller2"] = IdleCaller("caller2")]
    /\ UNCHANGED <<active_connections, queue, wk, drop, job, nextConn, h, libVars>>

\* The kinds of io::Error that listener.incoming() can yield (accept
\* retries an interrupted call itself).
AcceptErrorKinds ==
    {"WouldBlock", "TimedOut", "ConnectionRefused", "ConnectionReset",
     "ConnectionAborted", "PermissionDenied", "Other"}

Continues_NoReset(kind) == kind \in {"WouldBlock", "TimedOut", "ConnectionRefused"}

\* start, lines 166-173: the kinds for which the loop continues
Continues(kind) ==
    kind \in {"WouldBlock", "TimedOut", "ConnectionRefused", "ConnectionReset"}

\* start, lines 163-173: a transient accept error is logged and the loop
\* goes on; err keeps the kind of the last error until the next connection
\* has been handed to the pool.
AcceptErrorTransient ==
    /\ caller["listener"].pc = "accept"
    /\ \E kind \in AcceptErrorKinds :
         /\ Continues(kind)
         /\ caller' = [caller EXCEPT !["listener"].err = kind]
    /\ UNCHANGED <<active_connections, queue, wk, drop, job, nextConn, h, libVars>>

\* start, lines 174-177: any other accept error makes start return
\* Err(ConnectionError); main returns and the server, with its pool, is
\* dropped.
AcceptErrorFatal ==
    /\ caller["listener"].pc = "accept"
    /\ \E kind \in AcceptErrorKinds :
         /\ ~Continues(kind)
         /\ caller' = [caller EXCEPT !["listener"].pc = "drop_send",
                                     !["listener"].err = kind]
    /\ UNCHANGED <<active_connections, queue, wk, drop, job, nextConn, h, libVars>>

\* ------------------------------------------------- Drop for ThreadPool
\* drop, lines 117-119: one Terminate per worker; send(..).unwrap() panics
\* when no worker thread is left to receive.
DropSend ==
    /\ caller["listener"].pc = "drop_send"
    /\ IF LiveWorkers = {}
       THEN /\ caller' = [caller EXCEPT !["listener"].pc = "drop_panicked"]
            /\ UNCHANGED <<queue, drop>>
       ELSE /\ queue' = Append(queue, Terminate)
            /\ drop' = [drop EXCEPT !.sent = @ + 1]
            /\ caller' = [caller EXCEPT !["listener"].pc =
                             IF drop.sent + 1 = NumWorkers THEN "drop_join" ELSE "drop_send"]
    /\ UNCHANGED <<active_connections, wk, job, nextConn, h, libVars>>

\* drop, lines 123-129: join the workers in order; join blocks until the
\* thread has ended, and join().unwrap() panics if the thread panicked.
DropJoin ==
    /\ caller["listener"].pc = "drop_join"
    /\ LET w == drop.joined + 1 IN
         \/ /\ wk[w].pc = "terminated"
            /\ drop' = [drop EXCEPT !.joined = @ + 1]
            /\ caller' = [caller EXCEPT !["listener"].pc =
                             IF drop.joined + 1 = NumWorkers THEN "returned" ELSE "drop_join"]
         \/ /\ wk[w].pc = "panicked"
            /\ drop' = drop
            /\ caller' = [caller EXCEPT !["listener"].pc = "drop_panicked"]
    /\ UNCHANGED <<active_connections, queue, wk, job, nextConn, h, libVars>>

\* ------------------------------------------------------------ Worker
WorkerRecv_Peek(w) ==
    /\ ProcessAlive
    /\ wk[w].pc = "recv"
    /\ queue # <<>>
    /\ queue' = queue
    /\ IF Head(queue).type = "NewJob"
       THEN /\ wk' = [wk EXCEPT ![w] = [IdleWorker EXCEPT !.pc = "job", !.conn = Head(queue).job]]
            /\ job' = [job EXCEPT ![Head(queue).job].runs = @ + 1]
       ELSE /\ wk' = [wk EXCEPT ![w] = [IdleWorker EXCEPT !.pc = "terminated"]]
            /\ job' = job
    /\ UNCHANGED <<active_connections, caller, drop, nextConn, h, libVars>>

WorkerRecv_AnyState(w) ==
    /\ ProcessAlive
    /\ wk[w].pc \in {"recv", "job"}
    /\ queue # <<>>
    /\ queue' = Tail(queue)
    /\ IF Head(queue).type = "NewJob"
       THEN /\ wk' = [wk EXCEPT ![w] = [IdleWorker EXCEPT !.pc = "job", !.conn = Head(queue).job]]
            /\ job' = [job EXCEPT ![Head(queue).job].runs = @ + 1]
       ELSE /\ wk' = [wk EXCEPT ![w] = [IdleWorker EXCEPT !.pc = "terminated"]]
            /\ job' = job
    /\ UNCHANGED <<active_connections, caller, drop, nextConn, h, libVars>>

\* Worker::new, lines 21-31: receiver.lock().unwrap().recv().unwrap() takes
\* the oldest message off the channel (the mutex serialises the workers);
\* NewJob calls job(), Terminate leaves the loop.
WorkerRecv(w) ==
    /\ ProcessAlive
    /\ wk[w].pc = "recv"
    /\ queue # <<>>
    /\ queue' = Tail(queue)
    /\ IF Head(queue).type = "NewJob"
       THEN /\ wk' = [wk EXCEPT ![w] = [IdleWorker EXCEPT !.pc = "job", !.conn = Head(queue).job]]
            /\ job' = [job EXCEPT ![Head(queue).job].runs = @ + 1]
       ELSE /\ wk' = [wk EXCEPT ![w] = [IdleWorker EXCEPT !.pc = "terminated"]]
            /\ job' = job
    /\ UNCHANGED <<active_connections, caller, drop, nextConn, h, libVars>>

\* The ways handle_connection_threaded ends (ConnSpec follows them one by
\* one): the panic of stream.try_clone().unwrap() at line 193, and the
\* returns of lines 202-228, 298 and 309.
HandlerExits ==
    {"panic", "client_closed", "timeout", "io_error", "write_error", "response_close"}

\* Result<(), ServerError> of the handler for each way it ends
ResultOf(exit) ==
    CASE exit \in {"timeout", "io_error", "write_error"} -> "Err"
      [] exit = "panic" -> "panic"
      [] OTHER -> "Ok"

\* How f(), the closure of start (lines 142-146), can end: the handler
\* returned Ok, returned Err (printed by the closure), or panicked.
JobOutcomes == {ResultOf(e) : e \in HandlerExits}

\* The job runs f() to its end. A panic unwinds the worker thread, so the
\* rest of the wrapped job (the fetch_sub of line 97) never runs and the
\* thread is gone.
JobRun(w) ==
    /\ ProcessAlive
    /\ wk[w].pc = "job"
    /\ \E out \in JobOutcomes :
         IF out = "panic"
         THEN /\ wk' = [wk EXCEPT ![w] = [IdleWorker EXCEPT !.pc = "panicked"]]
              /\ job' = [job EXCEPT ![wk[w].conn].end = "panicked"]
         ELSE /\ wk' = [wk EXCEPT ![w] = [@ EXCEPT !.pc = "dec", !.exit = out]]
              /\ job' = [job EXCEPT ![wk[w].conn].end = "returned"]
    /\ UNCHANGED <<active_connections, queue, caller, drop, nextConn, h, libVars>>

\* the wrapped job, lines 95-97: after f() has returned, fetch_sub; then the
\* worker is back at the top of its loop
JobDecrement(w) ==
    /\ ProcessAlive
    /\ wk[w].pc = "dec"
    /\ active_connections' = FetchSub(active_connections)
    /\ job' = [job EXCEPT ![wk[w].conn].decs = @ + 1]
    /\ wk' = [wk EXCEPT ![w] = IdleWorker]
    /\ UNCHANGED <<queue, caller, drop, nextConn, h, libVars>>

\* ------------------------------------- handle_connection_threaded
poolVars == <<active_connections, queue, wk, caller, drop, job, nextConn>>

\* line 193: BufferedStream::new(stream.try_clone().unwrap(), 8192)
ConnStart ==
    /\ h.pc = "start"
    /\ \E cloned \in BOOLEAN :
         h' = [h EXCEPT !.pc = IF cloned THEN "read" ELSE "panicked",
                        !.exit = IF cloned THEN "none" ELSE "panic"]
    /\ UNCHANGED <<poolVars, libVars>>

\* What the client does while the loop is in read_request: it sends a
\* request with a non-blank line in it ("data", while it still has requests
\* to send), sends only blank lines, closes before the first byte, closes
\* its sending side inside the header block, sends nothing until the read
\* timeout of line 127 expires, resets the connection, or the read fails
\* in another way.
ReadOutcomes(nread) ==
    (IF nread < MaxRequests THEN {"data"} ELSE {})
    \cup {"blank", "eof", "eof_in_headers", "timeout", "reset", "other"}

\* The result of read_request for each of these: "Ok", or the kinds of
\* io::Error it can be. read_line gives UnexpectedEof at the end of the
\* stream (buffered_stream.rs lines 51-52); an expired read timeout is
\* TimedOut or WouldBlock, by platform.
ReadResults(rd) ==
    CASE rd \in {"data", "blank"} -> {"Ok"}
      [] rd \in {"eof", "eof_in_headers"} -> {"UnexpectedEof"}
      [] rd = "timeout" -> {"TimedOut", "WouldBlock"}
      [] rd = "reset" -> {"ConnectionReset", "ConnectionAborted"}
      [] rd = "other" -> {"Other"}

\* lines 199-231: how the function returns for a read that gave no request
\* to parse
ExitOfRead(rd, kind) ==
    CASE kind = "TimedOut" -> "timeout"
      [] kind \in {"Ok", "ConnectionReset", "ConnectionAborted", "UnexpectedEof"} ->
           "client_closed"
      [] OTHER -> "io_error"

\* lines 211-213: the 408 response
Response408 ==
    WithBody(WithContentType(NewResponse(408, "Request Timeout"), "text/plain"),
             <<52, 48, 56>>)

\* lines 154-157: the response for a connection turned away at capacity
Response503 ==
    WithBody(WithConnection(WithContentType(
                 NewResponse(503, "Service Unavailable"), "text/html"), "close"),
             <<53, 48, 51>>)

\* What reaches the write buffer for a response: format() or format_chunked()
OnWire(resp, chunked) == IF chunked THEN FormatChunked(resp) ELSE Format(resp)

\* lines 198-232: the read of the next request. On a timeout the 408 is
\* written and flushed with both results ignored (lines 214-215). h.wire
\* is the last response whose bytes reached the socket; h.input is what the
\* client did, h.writable whether the socket takes a response at this
\* moment, h.answered whether a response to this input reached it,
\* h.write_buffer the number of responses whose bytes are in write_buffer,
\* h.resent the number of earlier responses whose bytes the last flush sent
\* in front of the response it was called for.
ReadRequest ==
    /\ h.pc = "read"
    /\ \E rd \in ReadOutcomes(h.nread) :
         IF rd = "data"
         THEN \E req \in Requests :
                h' = [h EXCEPT !.pc = "respond", !.nread = @ + 1, !.req = req,
                               !.input = rd, !.kind = "Ok",
                               !.writable = FALSE, !.answered = FALSE, !.resent = 0]
         ELSE \E kind \in ReadResults(rd),
                 writable \in (IF rd \in {"eof", "reset"} THEN {FALSE} ELSE BOOLEAN) :
                LET exit == ExitOfRead(rd, kind)
                    sent == kind = "TimedOut" /\ writable
                IN  h' = [h EXCEPT !.pc = "ended",
                                   !.exit = exit,
                                   !.input = rd, !.kind = kind,
                                   !.writable = writable, !.answered = sent,
                                   !.resent = IF sent THEN h.write_buffer ELSE 0,
                                   !.write_buffer = IF kind # "TimedOut" THEN @
                                                    ELSE IF sent THEN 0 ELSE @ + 1,
                                   !.wire = IF sent THEN OnWire(Response408, FALSE) ELSE @]
    /\ UNCHANGED <<poolVars, libVars>>

\* write_response then flush (lines 290-300, buffered_stream.rs 116-132):
\* buffered and flushed; buffered and the flush failed (logged, the loop
\* goes on); auto-flushed by write_response; auto-flush failed (return Err).
\* flush clears write_buffer only after write_all and flush succeeded (lines
\* 128-130), so the bytes of a failed flush stay in front of the next
\* response.
WriteOutcomes == {"flushed", "flush_failed", "auto_flushed", "write_failed"}

\* lines 235-306: parse, route, format, write, flush, and the decision to
\* close
WriteResponse ==
    /\ h.pc = "respond"
    /\ \E routed \in RouterResponses, io \in WriteOutcomes :
         LET r == Respond(h.req, routed) IN
         h' = [h EXCEPT
                 !.should_keep_alive = r.should_keep_alive,
                 !.wire = IF io \in {"flushed", "auto_flushed"}
                          THEN OnWire(r.response, UsesChunked(r))
                          ELSE @,
                 !.nresp = IF io \in {"flushed", "auto_flushed"} THEN @ + 1 ELSE @,
                 !.writable = io \in {"flushed", "auto_flushed"},
                 !.answered = io \in {"flushed", "auto_flushed"},
                 !.unflushed = IF io = "flush_failed" THEN @ + 1 ELSE @,
                 !.write_buffer = IF io \in {"flushed", "auto_flushed"} THEN 0 ELSE @ + 1,
                 !.resent = IF io \in {"flushed", "auto_flushed"} THEN h.write_buffer ELSE 0,
                 !.pc = IF io = "write_failed" \/ ShouldClose(r) THEN "ended" ELSE "read",
                 !.exit = IF io = "write_failed" THEN "write_error"
                          ELSE IF ShouldClose(r) THEN "response_close"
                          ELSE "none"]
    /\ UNCHANGED <<poolVars, libVars>>

\* ------------------------------------------- building and formatting
\* Header names and values handed to with_header by callers of the builder.
HeaderKeys == {"content-length", "Transfer-Encoding", "TRANSFER-ENCODING", "X-Id"}

HeaderValues == {"chunked", "7"}

\* A body of n bytes that repeats the given bytes.
FillBody(n, pattern) == [i \in 1..n |-> pattern[((i - 1) % Len(pattern)) + 1]]

\* Bodies handed to with_body: of the lengths around the hexadecimal
\* carries, made of a letter or of the bytes of the end marker itself.
FormatBodies ==
    { FillBody(n, pattern) :
        n \in {0, 1, 10, 15, 16, MaxBodyLen},
        pattern \in {<<97>>, FinalChunk, <<195, 169>>} }

FmtInit == fmt = [resp |-> NewResponse(200, "OK"), out |-> NoWire]

\* HttpResponse::new(..) starts a new response
FmtNew ==
    /\ \E st \in {<<200, "OK">>, <<404, "Not Found">>} :
         fmt' = [resp |-> NewResponse(st[1], st[2]), out |-> NoWire]
    /\ UNCHANGED <<bs, serverVars, rt, authVars>>

\* with_header(key, value) consumes the response and returns the changed one
FmtWithHeader ==
    /\ \E k \in HeaderKeys, v \in HeaderValues :
         fmt' = [resp |-> WithHeader(fmt.resp, k, v), out |-> NoWire]
    /\ UNCHANGED <<bs, serverVars, rt, authVars>>

\* with_body(body)
FmtWithBody ==
    /\ \E b \in FormatBodies :
         fmt' = [resp |-> WithBody(fmt.resp, b), out |-> NoWire]
    /\ UNCHANGED <<bs, serverVars, rt, authVars>>

\* format_chunked(&self)
FmtFormatChunked ==
    /\ fmt' = [fmt EXCEPT !.out = FormatChunked(fmt.resp)]
    /\ UNCHANGED <<bs, serverVars, rt, authVars>>

\* format(&self)
FmtFormat ==
    /\ fmt' = [fmt EXCEPT !.out = Format(fmt.resp)]
    /\ UNCHANGED <<bs, serverVars, rt, authVars>>

\* ------------------------------------------------------- TokenManager
\* Threads that share the TokenManager through the Arc in the Router.
Threads == {"t1", "t2"}

Usernames == {"alice", "bob"}

\* generate_token(), lines 95-111: the string is a hash of the clock reading
\* (DefaultHasher::new() has fixed keys) followed by the reading itself, so
\* it is the reading, one to one.
GenerateTokenString(clock) == [secs |-> clock.secs, sub |-> clock.sub]

\* a token string that generate_token never made
BogusToken == [secs |-> -1, sub |-> 0]

NoToken == [secs |-> -2, sub |-> 0]

Unexpired_Inclusive(auth_token, current_time) == auth_token.expires_at >= current_time

\* lines 61 and 89: auth_token.expires_at > current_time
Unexpired(auth_token, current_time) == auth_token.expires_at > current_time

\* lines 46-48: tokens.insert(token, auth_token)
InsertToken(store, token, username, expires_at) ==
    (token :> [username |-> username, expires_at |-> expires_at]) @@ store

RemoveToken(store, token) == [k \in DOMAIN store \ {token} |-> store[k]]

\* validate_token under the lock, lines 59-69: the result ("" is None) and
\* the store it leaves
ValidateToken(store, token, current_time) ==
    IF token \in DOMAIN store
    THEN IF Unexpired(store[token], current_time)
         THEN [result |-> store[token].username, store |-> store]
         ELSE [result |-> "", store |-> RemoveToken(store, token)]
    ELSE [result |-> "", store |-> store]

\* revoke_token, lines 73-79: tokens.remove(token).is_some()
RevokeToken(store, token) ==
    [result |-> token \in DOMAIN store, store |-> RemoveToken(store, token)]

\* cleanup_expired_tokens under the lock, line 89: retain the unexpired
CleanupExpiredTokens(store, current_time) ==
    [k \in {x \in DOMAIN store : Unexpired(store[x], current_time)} |-> store[k]]

IdleThread ==
    [pc |-> "idle", op |-> "none", calls |-> 0, token |-> NoToken, username |-> "",
     expires_at |-> 0, current_time |-> 0, result |-> "",
     seen |-> [owners |-> {}, was_revoked |-> FALSE, live |-> FALSE,
               found |-> 0, removed |-> {}]]

AuthInit ==
    /\ auth_users = EmptyMap
    /\ tokens = EmptyMap
    /\ now = [secs |-> 0, sub |-> 0, ticks |-> 0]
    /\ th = [t \in Threads |-> IdleThread]
    /\ issued = <<>>
    /\ revoked = {}

\* The token strings a caller can present: those handed out so far, and one
\* that was never handed out.
KnownTokens == {issued[i].token : i \in DOMAIN issued} \cup {BogusToken}

RECURSIVE TotalCalls(_)
TotalCalls(ts) ==
    IF ts = {} THEN 0
    ELSE LET t == CHOOSE x \in ts : TRUE IN th[t].calls + TotalCalls(ts \ {t})

\* thread t is between two calls and the run has calls left
Ready(t) == th[t].pc \in {"idle", "done"} /\ TotalCalls(Threads) < MaxCalls

\* thread t entering a call
Enter(t, op) == [IdleThread EXCEPT !.op = op, !.calls = th[t].calls + 1]

\* What a call under the lock met: in the history, the users the token was
\* generated for, whether a revoke of it has returned true, and whether one
\* of its generations is unexpired by the clock; in the store, the expiry of
\* the entry found (0 for none) and the tokens the call removed.
Seen(token, before, after) ==
    [owners |-> {issued[i].username : i \in {j \in DOMAIN issued : issued[j].token = token}},
     was_revoked |-> token \in revoked,
     live |-> \E i \in DOMAIN issued :
                 issued[i].token = token /\ issued[i].expires_at > now.secs,
     found |-> IF token \in DOMAIN before THEN before[token].expires_at ELSE 0,
     removed |-> DOMAIN before \ DOMAIN after]

\* The clock between two readings: the same second, a later instant.
ClockSubTick ==
    /\ now.sub < MaxSub
    /\ now' = [now EXCEPT !.sub = @ + 1]
    /\ UNCHANGED <<bs, serverVars, fmt, rt, auth_users, tokens, th, issued, revoked>>

\* The clock moves on by a second, or by a second less than the lifetime of
\* a token.
ClockTick ==
    /\ now.ticks < MaxTicks
    /\ \E d \in {1, TokenTtl - 1} :
         now' = [secs |-> now.secs + d, sub |-> 0, ticks |-> now.ticks + 1]
    /\ UNCHANGED <<bs, serverVars, fmt, rt, auth_users, tokens, th, issued, revoked>>

\* TokenManager::generate_token, line 34: let token = generate_token()
GenerateStart(t) ==
    /\ Ready(t)
    /\ \E u \in Usernames :
         th' = [th EXCEPT ![t] = [Enter(t, "generate") EXCEPT !.pc = "gen_expiry",
                                     !.username = u, !.token = GenerateTokenString(now)]]
    /\ UNCHANGED <<bs, serverVars, fmt, rt, auth_users, tokens, now, issued, revoked>>

\* lines 35-38: expires_at from a second reading of the clock
GenerateExpiry(t) ==
    /\ th[t].pc = "gen_expiry"
    /\ th' = [th EXCEPT ![t].pc = "gen_insert", ![t].expires_at = now.secs + TokenTtl]
    /\ UNCHANGED <<bs, serverVars, fmt, rt, auth_users, tokens, now, issued, revoked>>

\* lines 46-49: insert under the lock and return the token
GenerateInsert(t) ==
    /\ th[t].pc = "gen_insert"
    /\ tokens' = InsertToken(tokens, th[t].token, th[t].username, th[t].expires_at)
    /\ issued' = Append(issued, [token |-> th[t].token, username |-> th[t].username,
                                   expires_at |-> th[t].expires_at])
    /\ th' = [th EXCEPT ![t].pc = "done"]
    /\ UNCHANGED <<bs, serverVars, fmt, rt, auth_users, now, revoked>>

\* validate_token, lines 54-57: current_time is read before the lock
ValidateStart(t) ==
    /\ Ready(t)
    /\ \E token \in KnownTokens :
         th' = [th EXCEPT ![t] = [Enter(t, "validate") EXCEPT !.pc = "val_lock",
                                     !.token = token, !.current_time = now.secs]]
    /\ UNCHANGED <<bs, serverVars, fmt, rt, auth_users, tokens, now, issued, revoked>>

\* validate_token, lines 59-69
ValidateLock(t) ==
    /\ th[t].pc = "val_lock"
    /\ LET v == ValidateToken(tokens, th[t].token, th[t].current_time) IN
         /\ tokens' = v.store
         /\ th' = [th EXCEPT ![t].pc = "done", ![t].result = v.result,
                              ![t].seen = Seen(th[t].token, tokens, v.store)]
    /\ UNCHANGED <<bs, serverVars, fmt, rt, auth_users, now, issued, revoked>>

\* revoke_token, lines 73-79: one step under the lock
Revoke(t) ==
    /\ Ready(t)
    /\ \E token \in KnownTokens :
         LET r == RevokeToken(tokens, token) IN
         /\ tokens' = r.store
         /\ revoked' = IF r.result THEN revoked \cup {token} ELSE revoked
         /\ th' = [th EXCEPT ![t] = [Enter(t, "revoke") EXCEPT !.pc = "done",
                                         !.token = token,
                                         !.result = IF r.result THEN "true" ELSE "false",
                                         !.seen = Seen(token, tokens, r.store)]]
    /\ UNCHANGED <<bs, serverVars, fmt, rt, auth_users, now, issued>>

\* cleanup_expired_tokens, lines 83-86
CleanupStart(t) ==
    /\ Ready(t)
    /\ th' = [th EXCEPT ![t] = [Enter(t, "cleanup") EXCEPT !.pc = "clean_lock",
                                    !.current_time = now.secs]]
    /\ UNCHANGED <<bs, serverVars, fmt, rt, auth_users, tokens, now, issued, revoked>>

\* cleanup_expired_tokens, lines 88-90
CleanupLock(t) ==
    /\ th[t].pc = "clean_lock"
    /\ tokens' = CleanupExpiredTokens(tokens, th[t].current_time)
    /\ th' = [th EXCEPT ![t].pc = "done",
                         ![t].seen = Seen(NoToken, tokens,
                                          CleanupExpiredTokens(tokens, th[t].current_time))]
    /\ UNCHANGED <<bs, serverVars, fmt, rt, auth_users, now, issued, revoked>>

\* ------------------------------------------------------------- Router
\* A path is a string, written as the sequence of its pieces. No piece is
\* the start of another, so one string has one sequence and starts_with,
\* find and contains are the same on both.
PathTokens == {"/", "..", "?", "static", "admin", "api", "login"}

Paths ==
    UNION {[1..k -> PathTokens] : k \in 1..MaxPathLen}
    \cup {<<"/", "api", "/", "register">>, <<"/", "api", "/", "logout">>,
          <<"/", "hello">>, <<"/", "api", "/", "status">>, <<"/", "api", "/", "stats">>,
          <<"/", "api", "/", "echo">>, <<"/", "chunked">>}

\* str::starts_with
StartsWith(str, prefix) ==
    Len(str) >= Len(prefix) /\ SubSeq(str, 1, Len(prefix)) = prefix

\* str::contains("..")
ContainsDotDot(str) == \E i \in DOMAIN str : str[i] = ".."

\* route, lines 111-115: the path up to the first '?'
PathWithoutQuery(path) ==
    IF \E i \in DOMAIN path : path[i] = "?"
    THEN SubSeq(path, 1, (CHOOSE i \in DOMAIN path :
                             path[i] = "?" /\ \A j \in 1..(i - 1) : path[j] # "?") - 1)
    ELSE path

\* hash_password, auth.rs lines 175-185: "salt:hash(salt, password)"; the
\* hash is taken to be one to one
HashPassword(password, salt) == [salt |-> salt, hash |-> <<salt, password>>]

\* a stored value without the ':' of a salt:hash pair (add_auth_user
\* stores what it is given); the empty salt stands for the missing ':'
PlainPassword(password) == [salt |-> "", hash |-> <<"", password>>]

\* verify_password, auth.rs lines 188-201
VerifyPassword(password, stored_hash) ==
    stored_hash.salt # "" /\ stored_hash.hash = <<stored_hash.salt, password>>

\* create_error_response, auth.rs lines 262-264
CreateErrorResponse(message) == "{\"success\": false, \"error\": \"" \o message \o "\"}"

\* create_login_response, auth.rs lines 257-259
CreateLoginResponse(token) == "{\"success\": true, \"token\": \"" \o ToString(token) \o "\"}"

\* no Authorization header
NoAuthorization == [scheme |-> "none"]

Bearer(token) == [scheme |-> "Bearer", token |-> token]

\* "Basic " followed by the base64 of username:password
Basic(username, password) ==
    [scheme |-> "Basic", username |-> username, password |-> password]

\* parse_login_request, auth.rs lines 226-254: Some((username, password))
\* iff both fields are in the body
ParseLoginRequest(body) == body.username # "" /\ body.password # ""

JsonBody(username, password) == [username |-> username, password |-> password]

\* a body without the two fields (the empty body among them)
NoBody == JsonBody("", "")

\* What a call into the router leaves: the response, the two shared maps,
\* the history of generated and revoked tokens, and the trace of what ran.
Outcome(resp, users, store, gen, rev, log) ==
    [resp |-> resp, auth_users |-> users, tokens |-> store,
     issued |-> gen, revoked |-> rev, log |-> log]

\* TokenManager::generate_token in one piece, as one thread runs it
GenerateToken(store, username, clock) ==
    InsertToken(store, GenerateTokenString(clock), username, clock.secs + TokenTtl)

IssuedToken(username, clock) ==
    [token |-> GenerateTokenString(clock), username |-> username,
     expires_at |-> clock.secs + TokenTtl]

\* authenticate, lines 74-102: whether the request is let through, and the
\* token store afterwards (validate_token evicts an expired token)
Authenticate(req, users, store, clock) ==
    IF req.authorization.scheme = "Bearer"
    THEN LET v == ValidateToken(store, req.authorization.token, clock.secs) IN
         [ok |-> v.result # "", tokens |-> v.store]
    ELSE IF req.authorization.scheme = "Basic"
    THEN [ok |-> IF req.authorization.username \in DOMAIN users
                 THEN VerifyPassword(req.authorization.password,
                                     users[req.authorization.username])
                 ELSE FALSE,
          tokens |-> store]
    ELSE [ok |-> FALSE, tokens |-> store]

IsProtectedPath_Exact(protected_paths, path) ==
    \E protected \in protected_paths : path = protected

\* is_protected_path, lines 104-106
IsProtectedPath(protected_paths, path) ==
    \E protected \in protected_paths : StartsWith(path, protected)

\* lines 120-123
Response401 ==
    WithBody(WithHeader(WithContentType(NewResponse(401, "Unauthorized"), "text/html"),
                        "WWW-Authenticate", "Basic realm=\"Protected Area\""),
             "<h1>401 - Unauthorized</h1><p>Authentication required to access this resource.</p>")

\* lines 185-187
Response403 ==
    WithBody(WithContentType(NewResponse(403, "Forbidden"), "text/html"),
             "<h1>403 - Forbidden</h1><p>Directory traversal is not allowed.</p>")

\* lines 162-164
Response404 ==
    WithBody(WithContentType(NewResponse(404, "Not Found"), "text/html"),
             "<h1>404 - Page Not Found</h1><p>The requested resource could not be found.</p>")

\* lines 213-215 and 309-311
Response500(what) ==
    WithBody(WithContentType(NewResponse(500, "Internal Server Error"), "text/html"),
             "<h1>500 - Internal Server Error</h1><p>Unable to read " \o what \o ".</p>")

Json(code, text, body) ==
    WithBody(WithContentType(NewResponse(code, text), "application/json"), body)

\* What the file system holds at the resolved path.
FsKinds == {"missing", "file", "dir", "unreadable_file", "unreadable_dir"}

\* serve_static_file, lines 170-180: the file path for a request path
FilePath(static_dir, path) ==
    IF path = <<"/">> THEN static_dir \o <<"/", "index.html">>
    ELSE IF path = <<"/">> \o static_dir \/ path = <<"/">> \o static_dir \o <<"/">>
    THEN static_dir
    ELSE IF StartsWith(path, <<"/">> \o static_dir \o <<"/">>)
    THEN static_dir \o SubSeq(path, Len(static_dir) + 2, Len(path))
    ELSE static_dir \o path

\* lines 191-219 and serve_directory_listing: what the file system is asked
\* and the response, if any (status 0 is None)
ReadTarget(fs) ==
    CASE fs = "missing" ->
           [resp |-> NewResponse(0, ""), log |-> <<"fs_exists">>]
      [] fs = "dir" ->
           [resp |-> WithBody(WithContentType(NewResponse(200, "OK"), "text/html"), "listing"),
            log |-> <<"fs_exists", "fs_is_dir", "fs_read_dir">>]
      [] fs = "unreadable_dir" ->
           [resp |-> Response500("directory contents"),
            log |-> <<"fs_exists", "fs_is_dir", "fs_read_dir">>]
      [] fs = "file" ->
           [resp |-> WithBody(WithContentType(NewResponse(200, "OK"), "text/plain"), "content"),
            log |-> <<"fs_exists", "fs_is_dir", "fs_read_to_string">>]
      [] fs = "unreadable_file" ->
           [resp |-> Response500("the requested file"),
            log |-> <<"fs_exists", "fs_is_dir", "fs_read_to_string">>]

\* the traversal test made after the file system was asked
ServeStaticFile_CheckAfterExists(static_dir, path, fs) ==
    IF fs # "missing" /\ ContainsDotDot(FilePath(static_dir, path))
    THEN [resp |-> Response403, log |-> <<"fs_exists">>]
    ELSE ReadTarget(fs)

\* serve_static_file, lines 168-222
ServeStaticFile(static_dir, path, fs) ==
    IF ContainsDotDot(FilePath(static_dir, path))
    THEN [resp |-> Response403, log |-> <<>>]
    ELSE ReadTarget(fs)

\* The routes added by from_config_and_listener (server.rs lines 67-73):
\* the handler of each (method, path).
DefaultRoutes ==
    (<<"GET", <<"/">>>> :> "handle_home")
    @@ (<<"GET", <<"/", "hello">>>> :> "handle_hello")
    @@ (<<"GET", <<"/", "api", "/", "status">>>> :> "handle_status")
    @@ (<<"GET", <<"/", "api", "/", "stats">>>> :> "handle_stats")
    @@ (<<"POST", <<"/", "api", "/", "echo">>>> :> "handle_echo")
    @@ (<<"GET", <<"/", "admin">>>> :> "handle_admin")
    @@ (<<"GET", <<"/", "chunked">>>> :> "handle_chunked_demo")

\* (route.handler)(request), server.rs lines 313-398; the bodies are cut
\* to their first words
RouteHandler(handler, req) ==
    CASE handler = "handle_home" ->
           WithBody(WithContentType(NewResponse(200, "OK"), "text/html"),
                    "<h1>Welcome to Rust HTTP Server!</h1>")
      [] handler = "handle_hello" ->
           WithBody(WithContentType(NewResponse(200, "OK"), "text/plain"), "Hello, World!")
      [] handler = "handle_status" ->
           WithBody(WithContentType(NewResponse(200, "OK"), "application/json"),
                    "{\"status\":\"ok\"}")
      [] handler = "handle_stats" ->
           WithBody(WithContentType(NewResponse(200, "OK"), "application/json"),
                    "{\"server\": \"rust-http-server-optimized\"}")
      [] handler = "handle_echo" ->
           WithBody(WithContentType(NewResponse(200, "OK"), "application/json"),
                    "{\"method\":\"" \o req.method \o "\"}")
      [] handler = "handle_admin" ->
           WithBody(WithContentType(NewResponse(200, "OK"), "text/html"),
                    "<h1>Admin Panel</h1>")
      [] handler = "handle_chunked_demo" ->
           WithBody(WithChunkedEncoding(WithContentType(NewResponse(200, "OK"), "text/plain")),
                    "This is a demonstration of chunked transfer encoding. ")

Response405 == Json(405, "Method Not Allowed", CreateErrorResponse("Only POST method allowed"))

Response400Json ==
    Json(400, "Bad Request",
         CreateErrorResponse("Invalid JSON format. Expected {\"username\": \"...\", \"password\": \"...\"}"))

\* handle_login that tells the caller when the username is not known
HandleLogin_NamesUnknownUser(req, users, store, gen, rev, clock) ==
    IF req.method # "POST" THEN Outcome(Response405, users, store, gen, rev, <<"handle_login">>)
    ELSE IF ~ParseLoginRequest(req.body)
    THEN Outcome(Response400Json, users, store, gen, rev, <<"handle_login">>)
    ELSE IF req.body.username \notin DOMAIN users
    THEN Outcome(Json(401, "Unauthorized", CreateErrorResponse("Unknown username")),
                 users, store, gen, rev, <<"handle_login">>)
    ELSE IF VerifyPassword(req.body.password, users[req.body.username])
    THEN Outcome(Json(200, "OK", CreateLoginResponse(GenerateTokenString(clock))),
                 users, GenerateToken(store, req.body.username, clock),
                 Append(gen, IssuedToken(req.body.username, clock)), rev, <<"handle_login">>)
    ELSE Outcome(Json(401, "Unauthorized", CreateErrorResponse("Invalid username or password")),
                 users, store, gen, rev, <<"handle_login">>)

\* handle_login, lines 392-423
HandleLogin(req, users, store, gen, rev, clock) ==
    IF req.method # "POST" THEN Outcome(Response405, users, store, gen, rev, <<"handle_login">>)
    ELSE IF ~ParseLoginRequest(req.body)
    THEN Outcome(Response400Json, users, store, gen, rev, <<"handle_login">>)
    ELSE IF /\ req.body.username \in DOMAIN users
            /\ VerifyPassword(req.body.password, users[req.body.username])
    THEN Outcome(Json(200, "OK", CreateLoginResponse(GenerateTokenString(clock))),
                 users, GenerateToken(store, req.body.username, clock),
                 Append(gen, IssuedToken(req.body.username, clock)), rev, <<"handle_login">>)
    ELSE Outcome(Json(401, "Unauthorized", CreateErrorResponse("Invalid username or password")),
                 users, store, gen, rev, <<"handle_login">>)

\* generate_salt, auth.rs lines 154-172
GenerateSalt(clock) == "salt" \o ToString(clock.secs) \o "." \o ToString(clock.sub)

\* handle_register, lines 353-389
HandleRegister(req, users, store, gen, rev, clock) ==
    IF req.method # "POST" THEN Outcome(Response405, users, store, gen, rev, <<"handle_register">>)
    ELSE IF ~ParseLoginRequest(req.body)
    THEN Outcome(Response400Json, users, store, gen, rev, <<"handle_register">>)
    ELSE IF req.body.username \in DOMAIN users
    THEN Outcome(Json(409, "Conflict", CreateErrorResponse("Username already exists")),
                 users, store, gen, rev, <<"handle_register">>)
    ELSE Outcome(Json(201, "Created", CreateLoginResponse(GenerateTokenString(clock))),
                 (req.body.username :> HashPassword(req.body.password, GenerateSalt(clock)))
                     @@ users,
                 GenerateToken(store, req.body.username, clock),
                 Append(gen, IssuedToken(req.body.username, clock)), rev,
                 <<"handle_register">>)

\* handle_logout, lines 426-449
HandleLogout(req, users, store, gen, rev) ==
    IF req.method # "POST" THEN Outcome(Response405, users, store, gen, rev, <<"handle_logout">>)
    ELSE IF /\ req.authorization.scheme = "Bearer"
            /\ RevokeToken(store, req.authorization.token).result
    THEN Outcome(Json(200, "OK", "{\"success\": true, \"message\": \"Logged out successfully\"}"),
                 users, RevokeToken(store, req.authorization.token).store, gen,
                 rev \cup {req.authorization.token}, <<"handle_logout">>)
    ELSE Outcome(Json(400, "Bad Request", CreateErrorResponse("Invalid or missing token")),
                 users, store, gen, rev, <<"handle_logout">>)

\* serve_static_file as route calls it: the call is entered in the log
StaticLookup(static_dir, path, fs) ==
    LET r == ServeStaticFile(static_dir, path, fs) IN
    [resp |-> r.resp, log |-> <<"serve_static_file">> \o r.log]

NotServed == [resp |-> NewResponse(0, ""), log |-> <<>>]

\* route with the route table consulted before the static directory
Dispatch_RoutesFirst(req, router, fs, users, store, gen, rev, clock) ==
    LET path == PathWithoutQuery(req.path)
        last == IF req.method = "GET" THEN StaticLookup(router.static_dir, path, fs)
                ELSE NotServed
    IN  IF path = <<"/", "api", "/", "register">>
        THEN HandleRegister(req, users, store, gen, rev, clock)
        ELSE IF path = <<"/", "api", "/", "login">>
        THEN HandleLogin(req, users, store, gen, rev, clock)
        ELSE IF path = <<"/", "api", "/", "logout">>
        THEN HandleLogout(req, users, store, gen, rev)
        ELSE IF <<req.method, path>> \in DOMAIN router.routes
        THEN Outcome(RouteHandler(router.routes[<<req.method, path>>], req),
                     users, store, gen, rev, <<"route_handler">>)
        ELSE IF last.resp.status_code # 0
        THEN Outcome(last.resp, users, store, gen, rev, last.log)
        ELSE Outcome(Response404, users, store, gen, rev, last.log)

\* route, lines 127-165: what follows the auth gate
Dispatch(req, router, fs, users, store, gen, rev, clock) ==
    LET path == PathWithoutQuery(req.path)
        under_static ==
            /\ req.method = "GET"
            /\ \/ StartsWith(path, <<"/">> \o router.static_dir \o <<"/">>)
               \/ path = <<"/">> \o router.static_dir
        first == IF under_static THEN StaticLookup(router.static_dir, path, fs)
                 ELSE NotServed
        last == IF req.method = "GET" THEN StaticLookup(router.static_dir, path, fs)
                ELSE NotServed
    IN  IF path = <<"/", "api", "/", "register">>
        THEN HandleRegister(req, users, store, gen, rev, clock)
        ELSE IF path = <<"/", "api", "/", "login">>
        THEN HandleLogin(req, users, store, gen, rev, clock)
        ELSE IF path = <<"/", "api", "/", "logout">>
        THEN HandleLogout(req, users, store, gen, rev)
        ELSE IF first.resp.status_code # 0
        THEN Outcome(first.resp, users, store, gen, rev, first.log)
        ELSE IF <<req.method, path>> \in DOMAIN router.routes
        THEN Outcome(RouteHandler(router.routes[<<req.method, path>>], req),
                     users, store, gen, rev, first.log \o <<"route_handler">>)
        ELSE IF last.resp.status_code # 0
        THEN Outcome(last.resp, users, store, gen, rev, first.log \o last.log)
        ELSE Outcome(Response404, users, store, gen, rev, first.log \o last.log)

\* Router::route, lines 109-165
Route(req, router, fs, users, store, gen, rev, clock) ==
    LET path == PathWithoutQuery(req.path)
        a == Authenticate(req, users, store, clock)
    IN  IF IsProtectedPath(router.protected_paths, path)
        THEN IF ~a.ok
             THEN Outcome(Response401, users, a.tokens, gen, rev, <<>>)
             ELSE Dispatch(req, router, fs, users, a.tokens, gen, rev, clock)
        ELSE Dispatch(req, router, fs, users, store, gen, rev, clock)

\* The two tokens of the states routing starts in: one generated at second
\* 0, one a second later.
OldToken == GenerateTokenString([secs |-> 0, sub |-> 0])

LiveToken == GenerateTokenString([secs |-> 1, sub |-> 0])

Authorizations ==
    {NoAuthorization, Bearer(LiveToken), Bearer(OldToken),
     Basic("admin", "password123"), Basic("admin", "wrong")}

\* the router of ServerConfig::default (config.rs lines 94-102), and the
\* same with "/api" added by add_protected_path
DefaultRouter ==
    [static_dir |-> <<"static">>, protected_paths |-> {<<"/", "admin">>},
     routes |-> DefaultRoutes]

GuardedApiRouter ==
    [DefaultRouter EXCEPT !.protected_paths = {<<"/", "admin">>, <<"/", "api">>}]

\* the same with a route added by add_route on a path under the static
\* directory
ShadowedRouter ==
    [GuardedApiRouter EXCEPT
       !.routes = (<<"GET", <<"/", "static", "/", "login">>>> :> "handle_hello")
                  @@ DefaultRoutes]

Methods == {"GET", "POST", "HEAD", "PUT"}

NoRoute ==
    [phase |-> "none", req |-> [method |-> "", path |-> <<>>,
                                authorization |-> NoAuthorization, body |-> NoBody],
     fs |-> "missing", router |-> DefaultRouter, resp |-> NewResponse(0, ""), log |-> <<>>]

\* The shared state after two logins of admin, at seconds 0 and 1, when
\* the first token has just expired.
AuthAfterLogins(users) ==
    /\ auth_users = users
    /\ tokens = GenerateToken(GenerateToken(EmptyMap, "admin", [secs |-> 0, sub |-> 0]),
                              "admin", [secs |-> 1, sub |-> 0])
    /\ issued = <<IssuedToken("admin", [secs |-> 0, sub |-> 0]),
                  IssuedToken("admin", [secs |-> 1, sub |-> 0])>>
    /\ revoked = {}
    /\ now = [secs |-> TokenTtl, sub |-> 0, ticks |-> MaxTicks]
    /\ th = [t \in Threads |-> IdleThread]

DefaultUsers == "admin" :> HashPassword("password123", "salt0.0")

\* A request of any method, path and credential arrives at the router, with
\* anything at its place in the file system.
RouteInit ==
    /\ ServerInit
    /\ FmtInit
    /\ bs = NoStream
    /\ AuthAfterLogins(DefaultUsers)
    /\ \E method \in Methods, path \in Paths, a \in Authorizations, fs \in FsKinds,
          router \in {GuardedApiRouter, ShadowedRouter} :
         rt = [NoRoute EXCEPT !.phase = "request", !.fs = fs, !.router = router,
                              !.req = [method |-> method, path |-> path,
                                       authorization |-> a, body |-> NoBody]]

\* The user maps a login can meet: empty, the default user, the default
\* user stored unhashed, and two users.
UserMaps ==
    {EmptyMap, DefaultUsers, "admin" :> PlainPassword("password123"),
     ("user" :> HashPassword("secret", "salt0.1")) @@ DefaultUsers}

AuthBodies ==
    {NoBody} \cup {JsonBody(u, p) : u \in {"admin", "user", "ghost"},
                                    p \in {"password123", "secret"}}

\* A request to one of the three auth endpoints arrives at the router.
LoginInit ==
    /\ ServerInit
    /\ FmtInit
    /\ bs = NoStream
    /\ \E users \in UserMaps : AuthAfterLogins(users)
    /\ \E method \in {"GET", "POST"}, body \in AuthBodies,
          endpoint \in {"login", "register", "logout"},
          a \in {NoAuthorization, Bearer(LiveToken), Bearer(OldToken)} :
         rt = [NoRoute EXCEPT !.phase = "request",
                              !.req = [method |-> method,
                                       path |-> <<"/", "api", "/", endpoint>>,
                                       authorization |-> a, body |-> body]]

\* server.rs line 252: router.route(&request)
RouteCall ==
    /\ rt.phase = "request"
    /\ LET o == Route(rt.req, rt.router, rt.fs, auth_users, tokens, issued, revoked, now) IN
         /\ rt' = [rt EXCEPT !.phase = "done", !.resp = o.resp, !.log = o.log]
         /\ auth_users' = o.auth_users
         /\ tokens' = o.tokens
         /\ issued' = o.issued
         /\ revoked' = o.revoked
    /\ UNCHANGED <<bs, serverVars, fmt, now, th>>

\* ------------------------------------ sessions on shared auth state
\* Each thread is a worker running one connection; all share auth_users and
\* the TokenManager through the Arcs that Router::clone copies (router.rs
\* lines 19-29). A request is followed here lock by lock: holds is the
\* sequence of mutexes the thread has locked, in the order it took them.
SessionUsers == {"alice"}

SessionPasswords == {"pw1", "pw2"}

IdleSession ==
    [pc |-> "idle", calls |-> 0, op |-> "none", username |-> "", password |-> "",
     stored |-> PlainPassword(""), token |-> NoToken, expires_at |-> 0,
     holds |-> <<>>, status |-> 0]

SessionInit ==
    /\ ServerInit
    /\ FmtInit
    /\ bs = NoStream
    /\ rt = [NoRoute EXCEPT !.phase = "session"]
    /\ auth_users = DefaultUsers
    /\ tokens = EmptyMap
    /\ now = [secs |-> 0, sub |-> 0, ticks |-> 0]
    /\ th = [t \in Threads |-> IdleSession]
    /\ issued = <<>>
    /\ revoked = {}

\* Mutex::lock returns once no other thread holds the mutex.
LockFree(t, mutex) ==
    \A o \in Threads \ {t} : \A i \in DOMAIN th[o].holds : th[o].holds[i] # mutex

\* thread t is between two requests and the run has requests left
Idle(t) == th[t].pc \in {"idle", "done"} /\ TotalCalls(Threads) < MaxSessionCalls

\* thread t taking up a request
Begin(t, op, username, password, token) ==
    [IdleSession EXCEPT !.calls = th[t].calls + 1, !.op = op, !.username = username,
                        !.password = password, !.token = token]

\* the response is handed back to the connection loop
Complete(r, status) ==
    [IdleSession EXCEPT !.pc = "done", !.calls = r.calls, !.op = r.op,
                        !.token = r.token, !.status = status]

sessionFrame == <<bs, serverVars, fmt, now>>

\* handle_register, lines 361-369: lock, contains_key, unlock
RegisterCheck(t) ==
    /\ Idle(t)
    /\ LockFree(t, "auth_users")
    /\ \E u \in SessionUsers, p \in SessionPasswords :
         LET r == Begin(t, "register", u, p, NoToken) IN
         th' = [th EXCEPT ![t] = IF u \in DOMAIN auth_users
                                 THEN Complete(r, 409)
                                 ELSE [r EXCEPT !.pc = "reg_hash"]]
    /\ UNCHANGED <<sessionFrame, rt, auth_users, tokens, issued, revoked>>

\* handle_register, lines 372-373: generate_salt and hash_password
RegisterHash(t) ==
    /\ th[t].pc = "reg_hash"
    /\ th' = [th EXCEPT ![t].pc = "reg_insert",
                        ![t].stored = HashPassword(th[t].password, GenerateSalt(now))]
    /\ UNCHANGED <<sessionFrame, rt, auth_users, tokens, issued, revoked>>

\* handle_register, lines 374-376: lock, insert, unlock
RegisterInsert(t) ==
    /\ th[t].pc = "reg_insert"
    /\ LockFree(t, "auth_users")
    /\ auth_users' = (th[t].username :> th[t].stored) @@ auth_users
    /\ th' = [th EXCEPT ![t].pc = "reg_token"]
    /\ UNCHANGED <<sessionFrame, rt, tokens, issued, revoked>>

\* generate_token, auth.rs lines 34-44, called at router.rs line 379 or 406:
\* the token string and the expiry, from the clock
SessionToken(t) ==
    /\ th[t].pc \in {"reg_token", "login_token"}
    /\ th' = [th EXCEPT ![t].pc = IF th[t].pc = "reg_token" THEN "reg_token_insert"
                                  ELSE "login_token_insert",
                        ![t].token = GenerateTokenString(now),
                        ![t].expires_at = now.secs + TokenTtl]
    /\ UNCHANGED <<sessionFrame, rt, auth_users, tokens, issued, revoked>>

\* generate_token, auth.rs lines 46-49, then lines 381-383: the 201. The
\* log keeps the name and password of every register answered 201.
RegisterTokenInsert(t) ==
    /\ th[t].pc = "reg_token_insert"
    /\ LockFree(t, "tokens")
    /\ tokens' = InsertToken(tokens, th[t].token, th[t].username, th[t].expires_at)
    /\ issued' = Append(issued, [token |-> th[t].token, username |-> th[t].username,
                                expires_at |-> th[t].expires_at])
    /\ rt' = [rt EXCEPT !.log = Append(@, [username |-> th[t].username,
                                           password |-> th[t].password])]
    /\ th' = [th EXCEPT ![t] = Complete(@, 201)]
    /\ UNCHANGED <<sessionFrame, auth_users, revoked>>

\* handle_login, lines 400-403: lock auth_users and get; without an entry
\* the guard is dropped and lines 415-417 answer 401
LoginLock(t) ==
    /\ Idle(t)
    /\ LockFree(t, "auth_users")
    /\ \E u \in SessionUsers, p \in SessionPasswords :
         LET r == Begin(t, "login", u, p, NoToken) IN
         th' = [th EXCEPT ![t] = IF u \in DOMAIN auth_users
                                 THEN [r EXCEPT !.pc = "login_verify",
                                                !.holds = <<"auth_users">>,
                                                !.stored = auth_users[u]]
                                 ELSE Complete(r, 401)]
    /\ UNCHANGED <<sessionFrame, rt, auth_users, tokens, issued, revoked>>

\* handle_login, line 404: verify_password inside the block that owns the
\* guard
LoginVerify(t) ==
    /\ th[t].pc = "login_verify"
    /\ th' = [th EXCEPT ![t] = IF VerifyPassword(th[t].password, th[t].stored)
                               THEN [@ EXCEPT !.pc = "login_token"]
                               ELSE Complete(@, 401)]
    /\ UNCHANGED <<sessionFrame, rt, auth_users, tokens, issued, revoked>>

\* generate_token, auth.rs lines 46-48, called from line 406 inside the
\* guard's block: the token mutex is locked and the entry inserted
LoginTokenInsert(t) ==
    /\ th[t].pc = "login_token_insert"
    /\ LockFree(t, "tokens")
    /\ tokens' = InsertToken(tokens, th[t].token, th[t].username, th[t].expires_at)
    /\ issued' = Append(issued, [token |-> th[t].token, username |-> th[t].username,
                                expires_at |-> th[t].expires_at])
    /\ th' = [th EXCEPT ![t].pc = "login_return", ![t].holds = Append(@, "tokens")]
    /\ UNCHANGED <<sessionFrame, rt, auth_users, revoked>>

LoginReturn_KeepsGuard(t) ==
    /\ th[t].pc = "login_return"
    /\ th' = [th EXCEPT ![t] = [Complete(@, 200) EXCEPT !.holds = <<"auth_users">>]]
    /\ UNCHANGED <<sessionFrame, rt, auth_users, tokens, issued, revoked>>

\* auth.rs line 49 and router.rs lines 408-410: both guards are dropped
\* and the 200 returned
LoginReturn(t) ==
    /\ th[t].pc = "login_return"
    /\ th' = [th EXCEPT ![t] = Complete(@, 200)]
    /\ UNCHANGED <<sessionFrame, rt, auth_users, tokens, issued, revoked>>

\* handle_logout, lines 434-448, with a Bearer token
Logout(t) ==
    /\ Idle(t)
    /\ LockFree(t, "tokens")
    /\ \E token \in KnownTokens :
         LET r == RevokeToken(tokens, token) IN
         /\ tokens' = r.store
         /\ revoked' = IF r.result THEN revoked \cup {token} ELSE revoked
         /\ th' = [th EXCEPT ![t] = Complete(Begin(t, "logout", "", "", token),
                                             IF r.result THEN 200 ELSE 400)]
    /\ UNCHANGED <<sessionFrame, rt, auth_users, issued>>

\* route, lines 118-125 and 148-152, for GET /admin with a Bearer token:
\* validate_token, then the 401 or handle_admin
GateBearer(t) ==
    /\ Idle(t)
    /\ LockFree(t, "tokens")
    /\ \E token \in KnownTokens :
         LET v == ValidateToken(tokens, token, now.secs) IN
         /\ tokens' = v.store
         /\ th' = [th EXCEPT ![t] = Complete(Begin(t, "gate", "", "", token),
                                             IF v.result # "" THEN 200 ELSE 401)]
    /\ UNCHANGED <<sessionFrame, rt, auth_users, issued, revoked>>

\* authenticate, lines 91-94, for GET /admin with Basic credentials: lock
\* auth_users and get
GateBasicLock(t) ==
    /\ Idle(t)
    /\ LockFree(t, "auth_users")
    /\ \E u \in SessionUsers, p \in SessionPasswords :
         LET r == Begin(t, "gate_basic", u, p, NoToken) IN
         th' = [th EXCEPT ![t] = IF u \in DOMAIN auth_users
                                 THEN [r EXCEPT !.pc = "basic_verify",
                                                !.holds = <<"auth_users">>,
                                                !.stored = auth_users[u]]
                                 ELSE Complete(r, 401)]
    /\ UNCHANGED <<sessionFrame, rt, auth_users, tokens, issued, revoked>>

\* authenticate, line 93: verify_password inside the guard's block
GateBasicVerify(t) ==
    /\ th[t].pc = "basic_verify"
    /\ th' = [th EXCEPT ![t] = Complete(@, IF VerifyPassword(th[t].password, th[t].stored)
                                           THEN 200 ELSE 401)]
    /\ UNCHANGED <<sessionFrame, rt, auth_users, tokens, issued, revoked>>

\* ------------------------------------------------------ BufferedStream
\* The bytes of a stream are numbers 0..255; a String is the sequence of
\* the bytes of its UTF-8 text.
Http11 == <<72, 84, 84, 80, 47, 49, 46, 49>>                   \* "HTTP/1.1"

RequestLine == <<71, 32, 47, 32>> \o Http11                    \* "G / HTTP/1.1"

ContentLengthName ==                                            \* "Content-Length:"
    <<67, 111, 110, 116, 101, 110, 116, 45, 76, 101, 110, 103, 116, 104, 58>>

ContentLengthKey ==                                             \* "content-length:"
    <<99, 111, 110, 116, 101, 110, 116, 45, 108, 101, 110, 103, 116, 104, 58>>

Min(a, b) == IF a < b THEN a ELSE b

\* char::to_lowercase of an ASCII byte
LowerByte(b) == IF b \in 65..90 THEN b + 32 ELSE b

IsPrefix(p, s) == Len(p) <= Len(s) /\ SubSeq(s, 1, Len(p)) = p

\* char::is_whitespace for ASCII
Whitespace == {9, 10, 11, 12, 13, 32}

RECURSIVE TrimStart(_)
TrimStart(s) == IF s # <<>> /\ Head(s) \in Whitespace THEN TrimStart(Tail(s)) ELSE s

RECURSIVE TrimEnd(_)
TrimEnd(s) ==
    IF s # <<>> /\ s[Len(s)] \in Whitespace THEN TrimEnd(SubSeq(s, 1, Len(s) - 1)) ELSE s

\* str::trim
Trim(s) == TrimEnd(TrimStart(s))

\* str::trim().is_empty(), server.rs line 200
IsBlank(text) == \A i \in DOMAIN text : text[i] \in Whitespace

\* the index of the first byte b in s, or 0
RECURSIVE IndexOf(_, _, _)
IndexOf(s, b, i) ==
    IF i > Len(s) THEN 0 ELSE IF s[i] = b THEN i ELSE IndexOf(s, b, i + 1)

RECURSIVE Decimal(_, _)
Decimal(s, acc) == IF s = <<>> THEN acc ELSE Decimal(Tail(s), 10 * acc + (Head(s) - 48))

\* str::parse::<usize>().unwrap_or(0), line 72: digits, with an optional
\* leading '+'
ParseUsize(s) ==
    LET digits == IF Len(s) > 1 /\ Head(s) = 43 THEN Tail(s) ELSE s IN
    IF digits # <<>> /\ \A i \in DOMAIN digits : digits[i] \in 48..57
    THEN Decimal(digits, 0)
    ELSE 0

\* read_request, lines 70-74: the Content-Length a header line sets, or the
\* value so far. split(':').nth(1) is the text between the first colon and
\* the second one.
ContentLength(line, content_length) ==
    IF IsPrefix(ContentLengthKey, [i \in DOMAIN line |-> LowerByte(line[i])])
    THEN LET rest == SubSeq(line, Len(ContentLengthKey) + 1, Len(line))
             colon == IndexOf(rest, 58, 1)
             length_str == IF colon = 0 THEN rest ELSE SubSeq(rest, 1, colon - 1)
         IN  ParseUsize(Trim(length_str))
    ELSE content_length

\* line.push(byte as char), line 45: the byte as a Latin-1 character, in
\* UTF-8
PushChar(byte) ==
    IF byte < 128 THEN <<byte>> ELSE <<192 + (byte \div 64), 128 + (byte % 64)>>

\* String::from_utf8_lossy, line 109, for ASCII bytes and the byte 255
\* (which is valid nowhere in UTF-8 and becomes U+FFFD)
RECURSIVE FromUtf8Lossy(_)
FromUtf8Lossy(bytes) ==
    IF bytes = <<>> THEN <<>>
    ELSE (IF Head(bytes) < 128 THEN <<Head(bytes)>> ELSE <<239, 191, 189>>)
         \o FromUtf8Lossy(Tail(bytes))

\* read_line, lines 38-47: the while loop over the bytes of the buffer from
\* read_pos (counted from 0) up to read_end
RECURSIVE ScanLine(_, _, _, _)
ScanLine(read_buffer, read_pos, read_end, line) ==
    IF read_pos >= read_end
    THEN [line |-> line, read_pos |-> read_pos, found |-> FALSE]
    ELSE LET byte == read_buffer[read_pos + 1] IN
         IF byte = 10
         THEN [line |-> line, read_pos |-> read_pos + 1, found |-> TRUE]
         ELSE ScanLine(read_buffer, read_pos + 1, read_end,
                       IF byte # 13 THEN line \o PushChar(byte) ELSE line)

\* str::lines, request.rs line 14: the text is cut after each "\n"; a line
\* loses its "\n" and a "\r" in front of it.
RECURSIVE Lines(_)
Lines(text) ==
    IF text = <<>> THEN <<>>
    ELSE LET i == IndexOf(text, 10, 1) IN
         IF i = 0 THEN <<text>>
         ELSE LET l == SubSeq(text, 1, i - 1) IN
              <<IF l # <<>> /\ l[Len(l)] = 13 THEN SubSeq(l, 1, Len(l) - 1) ELSE l>>
              \o Lines(SubSeq(text, i + 1, Len(text)))

\* str::split_whitespace, request.rs line 21
RECURSIVE SplitWhitespace(_, _)
SplitWhitespace(s, word) ==
    IF s = <<>> THEN (IF word = <<>> THEN <<>> ELSE <<word>>)
    ELSE IF Head(s) \in Whitespace
         THEN (IF word = <<>> THEN <<>> ELSE <<word>>) \o SplitWhitespace(Tail(s), <<>>)
         ELSE SplitWhitespace(Tail(s), Append(word, Head(s)))

\* [&str]::join("\n"), request.rs line 49
RECURSIVE Join(_)
Join(lines) ==
    IF lines = <<>> THEN <<>>
    ELSE IF Len(lines) = 1 THEN lines[1]
    ELSE lines[1] \o <<10>> \o Join(Tail(lines))

NoParse == [ok |-> FALSE, version |-> <<>>, body |-> <<>>]

\* HttpRequest::parse, request.rs lines 13-61: the version and the body (the
\* header map is left out: the streams of the model carry Content-Length
\* only). Lines are counted from 1 here and from 0 in the code.
Parse(request_data) ==
    LET lines == Lines(request_data) IN
    IF lines = <<>> THEN NoParse
    ELSE LET request_line_parts == SplitWhitespace(lines[1], <<>>) IN
         IF Len(request_line_parts) # 3 THEN NoParse
         ELSE LET empty == {i \in 2..Len(lines) : lines[i] = <<>>}
                  header_end_index ==
                      IF empty = {} THEN 2
                      ELSE CHOOSE i \in empty : \A j \in empty : i <= j
              IN  [ok |-> TRUE,
                   version |-> request_line_parts[3],
                   body |-> IF header_end_index + 1 <= Len(lines)
                            THEN Join(SubSeq(lines, header_end_index + 1, Len(lines)))
                            ELSE <<>>]

\* The bytes a client sends for a request with a body and its
\* Content-Length, and for one without a body.
Framed(body) ==
    RequestLine \o CRLF \o ContentLengthName \o <<32, 48 + Len(body)>> \o CRLF
    \o CRLF \o body

Bare == RequestLine \o CRLF \o CRLF

\* Body bytes: a letter, CR, LF and a byte that is not UTF-8.
BodyBytes == {97, 13, 10, 255}

StreamBodies == UNION {[1..n -> BodyBytes] : n \in 0..MaxStreamBody}

\* What a client sends on one connection before it stops sending: a request
\* with any body, alone or followed by a second request; two requests
\* without a body; header lines that end in a bare LF; a Content-Length
\* that is no number; a body shorter than its Content-Length; a blank line.
Streams ==
    {Framed(b) \o second : b \in StreamBodies, second \in {<<>>, Bare, Framed(<<97>>)}}
    \cup {Bare \o Bare,
          RequestLine \o <<10>> \o ContentLengthName \o <<49, 10, 10, 97>> \o Bare,
          RequestLine \o CRLF \o ContentLengthName \o <<120>> \o CRLF \o CRLF \o <<97>>,
          RequestLine \o CRLF \o ContentLengthName \o <<32, 50>> \o CRLF \o CRLF \o <<97>>,
          CRLF \o Bare}

\* BufferedStream::new, lines 13-21, on a socket that will deliver stream;
\* the locals of read_request and read_line; and what the calls returned.
\* read_buffer is the part of the vector the last socket read filled, its
\* first read_end bytes: the code indexes nothing beyond it.
\* raw is the bytes handed to the two functions so far, from is where in
\* raw the call began, body_at where its body began. Of the last call:
\* carried, whether it began with unread bytes in the buffer; split, whether
\* a socket read came in the middle of a line; copied and direct, the body
\* bytes taken from the buffer and read from the socket.
NewStream(stream) ==
    [pc |-> "idle", sent |-> stream, wire |-> stream,
     read_buffer |-> <<>>, read_pos |-> 0, read_end |-> 0,
     line |-> <<>>, request |-> <<>>, content_length |-> 0, body |-> <<>>,
     raw |-> <<>>, from |-> 0, body_at |-> 0,
     carried |-> FALSE, split |-> FALSE, copied |-> 0, direct |-> 0,
     results |-> <<>>]

StreamInit ==
    /\ ServerInit /\ FmtInit /\ rt = NoRoute /\ AuthInit
    /\ \E stream \in Streams : bs = NewStream(stream)

\* read_request returns to the loop of handle_connection_threaded (server.rs
\* lines 198-306): an error or a blank text ends the function, the text is
\* parsed, and the loop comes back for the next request when the request
\* parsed and keeps the connection alive (HTTP/1.1 without a Connection
\* header).
Return(s, kind, text) ==
    LET parsed == IF kind = "Ok" THEN Parse(text) ELSE NoParse IN
    [s EXCEPT !.pc = IF kind = "Ok" /\ ~IsBlank(text) /\ parsed.ok
                        /\ parsed.version = Http11
                     THEN "idle" ELSE "closed",
              !.results = Append(@, [kind |-> kind, text |-> text, parsed |-> parsed,
                                     from |-> s.from, body_at |-> s.body_at,
                                     upto |-> Len(s.raw),
                                     content_length |-> s.content_length,
                                     total_read |-> Len(s.body)]),
              !.line = <<>>, !.request = <<>>, !.content_length = 0, !.body = <<>>,
              !.from = 0, !.body_at = 0]

\* read_request, lines 58-59, called at server.rs line 198
StreamCall ==
    /\ bs.pc = "idle"
    /\ bs' = [bs EXCEPT !.pc = "line", !.from = Len(bs.raw),
                         !.carried = bs.read_pos < bs.read_end,
                         !.split = FALSE, !.copied = 0, !.direct = 0]
    /\ UNCHANGED <<serverVars, fmt, rt, authVars>>

\* read_request, lines 65-83, with the line read_line returned
AfterLine(s, line) ==
    IF line = <<>>
    THEN LET s2 == [s EXCEPT !.request = @ \o CRLF, !.line = <<>>,
                             !.body_at = Len(s.raw)]
         IN  IF s.content_length > 0
             THEN [s2 EXCEPT !.pc = "body"]
             ELSE Return(s2, "Ok", s2.request)
    ELSE [s EXCEPT !.line = <<>>,
                   !.content_length = ContentLength(line, @),
                   !.request = @ \o line \o CRLF]

Refill_DropsLine(s, k) ==
    [s EXCEPT !.read_pos = 0, !.read_end = k, !.line = <<>>,
              !.read_buffer = SubSeq(s.wire, 1, k),
              !.wire = SubSeq(s.wire, k + 1, Len(s.wire)),
              !.split = @ \/ s.line # <<>>]

\* read_line, lines 29-30, when the socket read returns k bytes
Refill(s, k) ==
    [s EXCEPT !.read_pos = 0, !.read_end = k,
              !.read_buffer = SubSeq(s.wire, 1, k),
              !.wire = SubSeq(s.wire, k + 1, Len(s.wire)),
              !.split = @ \/ s.line # <<>>]

\* The errors a socket read can end with: a reset at any time, the read
\* timeout when the client has nothing more on the way.
ReadErrors(s) == {"ConnectionReset"} \cup (IF s.wire = <<>> THEN {"TimedOut"} ELSE {})

\* read_line, lines 28-35 and 50-54: the buffer is used up and the socket
\* is read. The read returns some bytes; or 0 at the end of the stream,
\* and read_line returns the line so far or UnexpectedEof; or an error,
\* which leaves read_pos at 0 and read_end as it was and ends read_request.
LineFill ==
    /\ bs.pc = "line"
    /\ bs.read_pos >= bs.read_end
    /\ \/ \E k \in 1..Min(BufferSize, Len(bs.wire)) : bs' = Refill(bs, k)
       \/ /\ bs.wire = <<>>
          /\ LET s == [bs EXCEPT !.read_pos = 0, !.read_end = 0] IN
             bs' = IF bs.line = <<>>
                   THEN Return(s, "UnexpectedEof", <<>>)
                   ELSE AfterLine(s, bs.line)
       \/ \E kind \in ReadErrors(bs) :
             bs' = Return([bs EXCEPT !.read_pos = 0], kind, <<>>)
    /\ UNCHANGED <<serverVars, fmt, rt, authVars>>

\* read_line, lines 38-47: the bytes in the buffer are scanned up to the
\* next "\n"; with one found the line goes to read_request.
LineScan ==
    /\ bs.pc = "line"
    /\ bs.read_pos < bs.read_end
    /\ LET r == ScanLine(bs.read_buffer, bs.read_pos, bs.read_end, bs.line)
           s == [bs EXCEPT !.read_pos = r.read_pos, !.line = r.line,
                           !.raw = @ \o SubSeq(bs.read_buffer, bs.read_pos + 1, r.read_pos)]
       IN  bs' = IF r.found THEN AfterLine(s, r.line) ELSE s
    /\ UNCHANGED <<serverVars, fmt, rt, authVars>>

\* read_request, lines 109-113
FinishBody(s) == Return(s, "Ok", s.request \o FromUtf8Lossy(s.body))

CopyFromBuffer_KeepsPos(s) ==
    LET to_copy == Min(s.read_end - s.read_pos, s.content_length - Len(s.body))
        bytes == SubSeq(s.read_buffer, s.read_pos + 1, s.read_pos + to_copy)
    IN  [s EXCEPT !.body = @ \o bytes, !.raw = @ \o bytes, !.copied = @ + to_copy]

\* read_request, lines 89-97: the bytes left in the buffer come first
CopyFromBuffer(s) ==
    LET to_copy == Min(s.read_end - s.read_pos, s.content_length - Len(s.body))
        bytes == SubSeq(s.read_buffer, s.read_pos + 1, s.read_pos + to_copy)
    IN  [s EXCEPT !.body = @ \o bytes, !.read_pos = @ + to_copy, !.raw = @ \o bytes,
                  !.copied = @ + to_copy]

\* read_request, lines 87-97
BodyCopy ==
    /\ bs.pc = "body"
    /\ LET s == CopyFromBuffer(bs) IN
       bs' = IF Len(s.body) < s.content_length
             THEN [s EXCEPT !.pc = "body_read"]
             ELSE FinishBody(s)
    /\ UNCHANGED <<serverVars, fmt, rt, authVars>>

\* read_request, lines 100-106: the rest of the body is read from the
\* socket into body itself, never more than is missing; 0 bytes (the end
\* of the stream) ends the loop with the body so far.
BodyRead ==
    /\ bs.pc = "body_read"
    /\ \/ \E k \in 1..Min(bs.content_length - Len(bs.body), Len(bs.wire)) :
             LET bytes == SubSeq(bs.wire, 1, k)
                 s == [bs EXCEPT !.body = @ \o bytes, !.raw = @ \o bytes,
                                 !.wire = SubSeq(@, k + 1, Len(@)),
                                 !.direct = @ + k]
             IN  bs' = IF Len(s.body) < s.content_length THEN s ELSE FinishBody(s)
       \/ /\ bs.wire = <<>>
          /\ bs' = FinishBody(bs)
       \/ \E kind \in ReadErrors(bs) :
             bs' = Return(bs, kind, <<>>)
    /\ UNCHANGED <<serverVars, fmt, rt, authVars>>

\* read_request when the rest of the stream arrives in one socket read, into
\* a buffer that holds it, and the stream ends after it: the result for the
\* bytes from the start of the call on.
RECURSIVE OneRead(_, _, _, _)
OneRead(bytes, read_pos, request, content_length) ==
    LET r == ScanLine(bytes, read_pos, Len(bytes), <<>>) IN
    IF ~r.found THEN [kind |-> "UnexpectedEof", text |-> <<>>]
    ELSE IF r.line = <<>>
    THEN LET n == Min(content_length, Len(bytes) - r.read_pos) IN
         [kind |-> "Ok",
          text |-> request \o CRLF
                   \o FromUtf8Lossy(SubSeq(bytes, r.read_pos + 1, r.read_pos + n))]
    ELSE OneRead(bytes, r.read_pos, request \o r.line \o CRLF,
                 ContentLength(r.line, content_length))

StreamNext ==
    \/ StreamCall
    \/ LineFill
    \/ LineScan
    \/ BodyCopy
    \/ BodyRead

StreamSpec == StreamInit /\ [][StreamNext]_vars

\* ------------------------------------------------------------ specifications
Init ==
    /\ ServerInit
    /\ FmtInit
    /\ bs = NoStream
    /\ rt = NoRoute
    /\ AuthInit

WorkerStep(w) ==
    \/ WorkerRecv(w)
    \/ JobRun(w)
    \/ JobDecrement(w)

\* The server: one listener thread and the workers.
Next ==
    \/ Accept
    \/ AcceptErrorTransient
    \/ AcceptErrorFatal
    \/ ExecuteLoad("listener")
    \/ ExecuteFetchAdd("listener")
    \/ ExecuteSend("listener")
    \/ Reject503
    \/ DropSend
    \/ DropJoin
    \/ \E w \in Workers : WorkerStep(w)

Spec == Init /\ [][Next]_vars

\* The pool shared by two threads that call execute.
NextMulti ==
    \/ Accept
    \/ Caller2Submit
    \/ \E t \in Callers : ExecuteLoad(t)
    \/ \E t \in Callers : ExecuteFetchAdd(t)
    \/ \E t \in Callers : ExecuteSend(t)
    \/ Reject503
    \/ Caller2Rejected
    \/ \E w \in Workers : WorkerStep(w)

SpecMulti == Init /\ [][NextMulti]_vars

\* The operating system schedules every runnable thread: the listener's
\* steps inside execute and drop, and every worker step, are taken when they
\* stay enabled. Nothing makes a client connect.
Fairness ==
    /\ WF_vars(ExecuteLoad("listener"))
    /\ WF_vars(ExecuteFetchAdd("listener"))
    /\ WF_vars(ExecuteSend("listener"))
    /\ WF_vars(Reject503)
    /\ WF_vars(DropSend)
    /\ WF_vars(DropJoin)
    /\ \A w \in Workers : WF_vars(WorkerStep(w))

FairSpec == Spec /\ Fairness

\* One connection in the hands of the worker that runs its job.
ConnNext ==
    \/ ConnStart
    \/ ReadRequest
    \/ WriteResponse

ConnSpec == Init /\ [][ConnNext]_vars

\* A caller of the response builder: any chain of new, with_header and
\* with_body, formatted by either encoder.
FormatNext ==
    \/ FmtNew
    \/ FmtWithHeader
    \/ FmtWithBody
    \/ FmtFormatChunked
    \/ FmtFormat

FormatSpec == Init /\ [][FormatNext]_vars

\* Threads calling the TokenManager while the clock runs.
TokenNext ==
    \/ ClockSubTick
    \/ ClockTick
    \/ \E t \in Threads :
         \/ GenerateStart(t)
         \/ GenerateExpiry(t)
         \/ GenerateInsert(t)
         \/ ValidateStart(t)
         \/ ValidateLock(t)
         \/ Revoke(t)
         \/ CleanupStart(t)
         \/ CleanupLock(t)

TokenSpec == Init /\ [][TokenNext]_vars

SessionStep(t) ==
    \/ RegisterCheck(t)
    \/ RegisterHash(t)
    \/ RegisterInsert(t)
    \/ SessionToken(t)
    \/ RegisterTokenInsert(t)
    \/ LoginLock(t)
    \/ LoginVerify(t)
    \/ LoginTokenInsert(t)
    \/ LoginReturn(t)
    \/ Logout(t)
    \/ GateBearer(t)
    \/ GateBasicLock(t)
    \/ GateBasicVerify(t)

SessionNext ==
    \/ ClockSubTick
    \/ ClockTick
    \/ \E t \in Threads : SessionStep(t)

\* Connections that register, log in, log out and ask for /admin, each on
\* its own worker thread.
SessionSpec == SessionInit /\ [][SessionNext]_vars

\* One call of route for each request and each state of the file system.
RouteSpec == RouteInit /\ [][RouteCall]_vars

\* One call of route for each request to an auth endpoint and each user map.
LoginSpec == LoginInit /\ [][RouteCall]_vars

\* ------------------------------------------------------------ properties
InQueue(c) == \E i \in DOMAIN queue : queue[i] = NewJob(c)

\* The listener is done with connection c (it is not between execute's
\* return and the end of the match arm for c).
ListenerPast(c) == caller["listener"].conn # c

\* C1: with execute called by the listener alone and jobs ending on the
\* workers, the value get_active_connections() reads is never above
\* max_connections.
C1_CountWithinMax == active_connections <= MaxConnections

\* C1's case: the pool is full, a connection has been turned away, and an
\* earlier job has already ended and given its slot back.
C1_Witness ==
    /\ active_connections = MaxConnections
    /\ \E c \in Conns : job[c].adm = "rejected"
    /\ \E c \in Conns : job[c].decs = 1

\* C2: with two threads calling execute, check and increment act as one
\* atomic step: the count, and the number of admitted jobs that hold a slot,
\* never exceed max_connections.
C2_AtomicAdmission ==
    /\ active_connections <= MaxConnections
    /\ Cardinality({c \in Conns : job[c].adm = "admitted" /\ job[c].decs = 0})
         <= MaxConnections

\* C3: every admitted job decrements the count exactly once when it ends,
\* whether it returned (Ok or Err) or panicked.
C3_DecrementOnEveryEnd ==
    \A c \in Conns :
        /\ job[c].decs <= 1
        /\ (job[c].end # "none" /\ ~\E w \in Workers : wk[w].pc = "dec" /\ wk[w].conn = c)
              => job[c].decs = 1

\* C4: a call of execute that finds the count at or above max_connections
\* returns Err and changes neither the count nor the queue, and a rejected
\* job is never in the queue and never run.
C4_RejectedNeverRuns ==
    /\ [](\A c \in Conns : job[c].adm = "rejected" =>
             /\ ~InQueue(c)
             /\ job[c].runs = 0
             /\ ~job[c].sent
             /\ \A w \in Workers : wk[w].conn # c)
    /\ [][\A t \in Callers :
            (/\ caller[t].pc = "execute"
             /\ active_connections >= MaxConnections
             /\ caller'[t] # caller[t])
            => /\ caller'[t].pc = "rejected"
               /\ job'[caller[t].conn].adm = "rejected"
               /\ active_connections' = active_connections
               /\ queue' = queue]_vars

\* C4's case: execute has just returned Err to the listener while the pool
\* is at capacity.
C4_Witness ==
    /\ caller["listener"].pc = "rejected"
    /\ job[caller["listener"].conn].adm = "rejected"
    /\ active_connections >= MaxConnections

\* C5: every connection that execute rejected has had the 503 written by the
\* listener (or the write attempted on a broken transport) by the time the
\* listener goes back to accept.
C5_RejectedGets503 ==
    \A c \in Conns :
        (job[c].adm = "rejected" /\ ListenerPast(c))
            => job[c].rsp503 \in {"sent", "write_failed"}

\* Jobs leave the queue in the order of admission: no job was dequeued
\* while a job admitted earlier is still in the queue.
FifoOrder ==
    \A c, d \in Conns : (InQueue(c) /\ job[d].runs > 0) => d < c

\* C6: every admitted job is eventually taken by a worker and run to its
\* end, and jobs are dequeued in FIFO order, whatever earlier jobs did.
C6_AdmittedJobsRun ==
    /\ []FifoOrder
    /\ \A c \in Conns : (job[c].adm = "admitted") ~> (job[c].end # "none")

\* C7: each admitted job is run exactly once by one worker: never started
\* twice, never held by two workers, never twice in the queue, and a job
\* that has left the queue has been started.
C7_ExactlyOnce ==
    \A c \in Conns :
        /\ job[c].runs <= 1
        /\ Cardinality({w \in Workers : wk[w].conn = c}) <= 1
        /\ Cardinality({i \in DOMAIN queue : queue[i] = NewJob(c)}) <= 1
        /\ InQueue(c) => job[c].runs = 0
        /\ (job[c].sent /\ ~InQueue(c)) => job[c].runs = 1
        /\ (\E w \in Workers : wk[w].conn = c) => job[c].runs = 1

\* C7's case: both workers are inside the connection loop at once, each on
\* a job of its own.
C7_Witness ==
    /\ \A w \in Workers : wk[w].pc = "job"
    /\ \E c \in Conns : job[c].runs = 1 /\ job[c].end = "none"

\* C8: the drop of the pool does not abort, and when it has returned every
\* worker has consumed its Terminate and ended, no message is left, and every
\* job that was enqueued has run to its end.
C8_GracefulDrop ==
    /\ caller["listener"].pc # "drop_panicked"
    /\ caller["listener"].pc = "returned" =>
          /\ \A w \in Workers : wk[w].pc = "terminated"
          /\ queue = <<>>
          /\ \A c \in Conns : job[c].sent => job[c].end = "returned" /\ job[c].decs = 1

\* C9: no failure of a connection costs the worker thread or the process.
C9_WorkerSurvives ==
    /\ \A w \in Workers : wk[w].pc # "panicked"
    /\ ProcessAlive

\* The request carried a Connection header naming keep-alive and was parsed.
CarriesKeepAlive(req) ==
    /\ ParseOk(req)
    /\ "connection" \in DOMAIN req.headers
    /\ Contains(ToLower(req.headers["connection"]), "keep-alive")

\* C10: a request that carried Connection: keep-alive is answered and the
\* server does not close the connection after the answer; and while no
\* write has failed, every request read so far has had its response flushed
\* before the next read.
C10_KeepAliveLoop ==
    /\ (h.exit = "response_close") => ~CarriesKeepAlive(h.req)
    /\ (h.pc = "read" /\ h.unflushed = 0) => h.nresp = h.nread

\* ------------------------------------------------- reading a response
\* The values of the header lines of a written response whose name is the
\* given one (header names are case-insensitive to a client).
WireValues(wire, name) ==
    {l[2] : l \in {x \in BagToSet(wire.headers) : ToLower(x[1]) = ToLower(name)}}

HexValue(b) ==
    IF b \in 48..57 THEN b - 48
    ELSE IF b \in 65..70 THEN b - 55
    ELSE IF b \in 97..102 THEN b - 87
    ELSE -1

\* the position of the first byte at or after i that is no hex digit
RECURSIVE HexEnd(_, _)
HexEnd(b, i) == IF i <= Len(b) /\ HexValue(b[i]) >= 0 THEN HexEnd(b, i + 1) ELSE i

RECURSIVE HexNumber(_)
HexNumber(d) ==
    IF d = <<>> THEN 0
    ELSE 16 * HexNumber(SubSeq(d, 1, Len(d) - 1)) + HexValue(d[Len(d)])

IsCRLF(b, i) == i + 1 <= Len(b) /\ b[i] = 13 /\ b[i + 1] = 10

NotChunked == [ok |-> FALSE, payload |-> <<>>, sizes |-> <<>>]

\* A client's decoder of a chunked body (RFC 9112, 7.1) from position i:
\* size line in hex, CRLF, that many bytes, CRLF, ... until the chunk of
\* size 0 and the closing CRLF, which must end the body.
RECURSIVE Dechunk(_, _, _, _)
Dechunk(b, i, payload, sizes) ==
    LET e == HexEnd(b, i)
        digits == SubSeq(b, i, e - 1)
        n == HexNumber(digits)
    IN  IF e = i \/ ~IsCRLF(b, e) THEN NotChunked
        ELSE IF n = 0
        THEN IF IsCRLF(b, e + 2) /\ e + 3 = Len(b)
             THEN [ok |-> TRUE, payload |-> payload, sizes |-> sizes]
             ELSE NotChunked
        ELSE IF e + 1 + n <= Len(b) /\ IsCRLF(b, e + 2 + n)
        THEN Dechunk(b, e + 4 + n, payload \o SubSeq(b, e + 2, e + 1 + n),
                     Append(sizes, digits))
        ELSE NotChunked

\* The request's Connection header names keep-alive (in any case), or the
\* header is absent and the version is HTTP/1.1.
AsksKeepAlive(req) ==
    IF "connection" \in DOMAIN req.headers
    THEN Contains(ToLower(req.headers["connection"]), "keep-alive")
    ELSE req.version = "HTTP/1.1"

\* C11: every response put on a socket, the 400, the 408 and the 503
\* included, carries one Connection header, keep-alive or close, and for a
\* parsed request it is keep-alive exactly when the request asks for it.
C11_ConnectionHeader ==
    /\ WireValues(Format(Response503), "Connection") = {"close"}
    /\ h.wire # NoWire =>
          /\ WireValues(h.wire, "Connection") \in {{"keep-alive"}, {"close"}}
          /\ (h.exit # "timeout" /\ ParseOk(h.req)) =>
                (WireValues(h.wire, "Connection") = {"keep-alive"} <=> AsksKeepAlive(h.req))

\* C12: no response put on a socket has both a Transfer-Encoding: chunked
\* header and a Content-Length header.
C12_ChunkedExcludesLength ==
    ~ /\ "chunked" \in WireValues(h.wire, "Transfer-Encoding")
      /\ WireValues(h.wire, "Content-Length") # {}

\* C13: the body of every response put on a socket with a
\* Transfer-Encoding: chunked header is framed in chunks and ends with the
\* final-chunk marker.
C13_ChunkedBodyFramed ==
    "chunked" \in WireValues(h.wire, "Transfer-Encoding")
        => /\ Dechunk(h.wire.body, 1, <<>>, <<>>).ok
           /\ Len(h.wire.body) >= Len(FinalChunk)
           /\ SubSeq(h.wire.body, Len(h.wire.body) - Len(FinalChunk) + 1, Len(h.wire.body))
                = FinalChunk

\* C14: format_chunked keeps the status code, emits every header except
\* Content-Length and Transfer-Encoding (in any case) and exactly one
\* Transfer-Encoding: chunked; the body is at most one chunk, whose size
\* line is the uppercase hex of the body's byte length, then 0 CRLF CRLF;
\* the chunk payloads put together are the body; an empty body gives the
\* final marker alone.
C14_FormatChunked ==
    (fmt.out # NoWire /\ fmt.out.chunked) =>
        LET d == Dechunk(fmt.out.body, 1, <<>>, <<>>)
            kept == {k \in DOMAIN fmt.resp.headers :
                        ToLower(k) \notin {"content-length", "transfer-encoding"}}
        IN  /\ fmt.out.status_code = fmt.resp.status_code
            /\ \A k \in kept : CopiesIn(<<k, fmt.resp.headers[k]>>, fmt.out.headers) = 1
            /\ \A l \in BagToSet(fmt.out.headers) :
                  \/ l[1] \in kept /\ l[2] = fmt.resp.headers[l[1]]
                  \/ l = <<"Transfer-Encoding", "chunked">>
            /\ CopiesIn(<<"Transfer-Encoding", "chunked">>, fmt.out.headers) = 1
            /\ d.ok
            /\ d.payload = fmt.resp.body
            /\ Len(d.sizes) <= 1
            /\ \A i \in DOMAIN d.sizes :
                  /\ HexNumber(d.sizes[i]) = Len(fmt.resp.body)
                  /\ \A j \in DOMAIN d.sizes[i] : d.sizes[i][j] \notin 97..102
            /\ fmt.resp.body = <<>> => fmt.out.body = FinalChunk

\* C14's case: a body long enough for a two-digit size with a letter, made
\* of the bytes of the end marker, under headers that must be dropped.
C14_Witness ==
    /\ fmt.out # NoWire /\ fmt.out.chunked
    /\ Len(fmt.resp.body) = MaxBodyLen
    /\ fmt.resp.body[1] = 48
    /\ {"content-length", "Content-Length", "TRANSFER-ENCODING"} \subseteq DOMAIN fmt.resp.headers

\* C15: every response the server writes with format() has one
\* Content-Length header, and its value is the decimal byte length of the
\* body after the blank line.
C15_ContentLength ==
    /\ WireValues(Format(Response503), "Content-Length")
          = {ToString(Len(Format(Response503).body))}
    /\ (h.wire # NoWire /\ ~h.wire.chunked) =>
          WireValues(h.wire, "Content-Length") = {ToString(Len(h.wire.body))}

\* C15's case: a response whose body holds a two-byte character went out
\* through format().
C15_Witness ==
    /\ h.wire # NoWire /\ ~h.wire.chunked
    /\ h.wire.body = <<195, 169>>
    /\ h.nresp > 0

\* C18: a token validates to the username it was generated for until it is
\* revoked or expires, a token whose revoke returned true never validates
\* again, and a second revoke of it returns false, with the calls made from
\* several threads.
C18_TokenLifecycle ==
    \A t \in Threads :
        th[t].pc = "done" =>
            /\ (th[t].op = "validate" /\ th[t].result # "") =>
                  /\ th[t].seen.owners = {th[t].result}
                  /\ ~th[t].seen.was_revoked
            /\ (th[t].op = "validate" /\ th[t].result = "") =>
                  ~(th[t].seen.live /\ ~th[t].seen.was_revoked)
            /\ (th[t].op = "revoke" /\ th[t].seen.was_revoked) => th[t].result = "false"

\* C19: validate_token returns no username for a token whose expiry is at
\* or before the time the call read, and that lookup removes the token;
\* cleanup_expired_tokens removes exactly the entries expired at the time it
\* read and keeps every other entry unchanged.
C19_ExpiredNeverValid ==
    /\ [](\A t \in Threads :
            (th[t].pc = "done" /\ th[t].op = "validate" /\ th[t].seen.found # 0) =>
                IF th[t].seen.found <= th[t].current_time
                THEN th[t].result = "" /\ th[t].seen.removed = {th[t].token}
                ELSE th[t].result # "" /\ th[t].seen.removed = {})
    /\ [][\A t \in Threads :
            (th[t].pc = "clean_lock" /\ th'[t].pc = "done") =>
                /\ DOMAIN tokens' =
                      {k \in DOMAIN tokens : tokens[k].expires_at > th[t].current_time}
                /\ \A k \in DOMAIN tokens' : tokens'[k] = tokens[k]]_vars

\* C19's case: a token looked up at the very second of its expiry was
\* found in the store, and the call returned.
C19_Witness ==
    \E t \in Threads :
        /\ th[t].pc = "done" /\ th[t].op = "validate"
        /\ th[t].seen.found = th[t].current_time


\* ------------------------------------------------------ router properties
\* The password a stored value was made from.
PasswordOf(stored_hash) == stored_hash.hash[2]

\* The credential of the request about to be routed is a token that was generated, has
\* not expired and was not revoked, or the name and password of a user whose
\* password is stored hashed.
ValidCredential ==
    LET a == rt.req.authorization IN
    \/ /\ a.scheme = "Bearer"
       /\ a.token \notin revoked
       /\ \E i \in DOMAIN issued :
            issued[i].token = a.token /\ issued[i].expires_at > now.secs
    \/ /\ a.scheme = "Basic"
       /\ a.username \in DOMAIN auth_users
       /\ auth_users[a.username].salt # ""
       /\ PasswordOf(auth_users[a.username]) = a.password

\* The query-stripped path of the routed request starts with a protected path.
UnderProtectedPath ==
    \E protected \in rt.router.protected_paths :
        StartsWith(PathWithoutQuery(rt.req.path), protected)

FsEvents == {"fs_exists", "fs_is_dir", "fs_read_dir", "fs_read_to_string"}

NoFsAccess == \A i \in DOMAIN rt.log : rt.log[i] \notin FsEvents

\* C16: a GET request that passes the auth gate and whose query-stripped
\* path contains ".." is answered 403, and the file system is not asked
\* anything for it, whatever is at the target.
C16_TraversalForbidden ==
    [][ ( /\ rt.phase = "request"
          /\ rt.req.method = "GET"
          /\ ContainsDotDot(PathWithoutQuery(rt.req.path))
          /\ (UnderProtectedPath => ValidCredential) )
        => /\ rt'.phase = "done"
           /\ rt'.resp.status_code = 403
           /\ NoFsAccess' ]_vars

\* a traversal into an existing file under the static directory, and one
\* outside it behind the gate, both answered 403
C16_Witness ==
    /\ rt.phase = "done"
    /\ rt.req.method = "GET"
    /\ rt.req.path \in {<<"/", "static", "/", "..">>, <<"/", "admin", "/", "..">>}
    /\ rt.req.path[2] = "admin" => ValidCredential
    /\ rt.fs = "file"
    /\ rt.resp.status_code = 403
    /\ NoFsAccess

FailingLogin(body) ==
    /\ body # NoBody
    /\ \/ body.username \notin DOMAIN auth_users
       \/ PasswordOf(auth_users[body.username]) # body.password

UnknownUser(body) == body # NoBody /\ body.username \notin DOMAIN auth_users

WrongPassword(body) ==
    /\ body # NoBody
    /\ body.username \in DOMAIN auth_users
    /\ PasswordOf(auth_users[body.username]) # body.password

LoginRequest(body) ==
    [method |-> "POST", path |-> <<"/", "api", "/", "login">>,
     authorization |-> NoAuthorization, body |-> body]

\* the response to a login with this body in the current state
LoginResponse(body) ==
    Route(LoginRequest(body), DefaultRouter, "missing",
          auth_users, tokens, issued, revoked, now).resp

\* C20: in every state of the user map, a POST /api/login that fails
\* because the username is unknown and one that fails because the password
\* is wrong are answered with status 401 and the same body, bytes for bytes.
C20_LoginFailuresAlike ==
    [][ ( /\ rt.phase = "request"
          /\ rt.req.method = "POST"
          /\ PathWithoutQuery(rt.req.path) = <<"/", "api", "/", "login">>
          /\ FailingLogin(rt.req.body) )
        => /\ rt'.resp.status_code = 401
           /\ \A other \in AuthBodies :
                ( \/ UnknownUser(rt.req.body) /\ WrongPassword(other)
                  \/ WrongPassword(rt.req.body) /\ UnknownUser(other) )
                => /\ LoginResponse(other).status_code = rt'.resp.status_code
                   /\ LoginResponse(other).body = rt'.resp.body
                   /\ LoginResponse(other).headers = rt'.resp.headers ]_vars

\* a login of a known user with a wrong password was answered 401, in a
\* user map where another name is unknown
C20_Witness ==
    /\ rt.phase = "done"
    /\ rt.req.method = "POST"
    /\ rt.req.path = <<"/", "api", "/", "login">>
    /\ WrongPassword(rt.req.body)
    /\ \E other \in AuthBodies : UnknownUser(other)
    /\ rt.resp.status_code = 401

\* C23: a request under a protected path that carries an Authorization:
\* Basic header, the right name and password of a user included, is answered
\* 401 with a JSON body and without a WWW-Authenticate header.
C23_BasicRejected ==
    [][ ( /\ rt.phase = "request"
          /\ UnderProtectedPath
          /\ rt.req.authorization.scheme = "Basic" )
        => /\ rt'.resp.status_code = 401
           /\ "Content-Type" \in DOMAIN rt'.resp.headers
           /\ rt'.resp.headers["Content-Type"] = "application/json"
           /\ \A k \in DOMAIN rt'.resp.headers : ToLower(k) # "www-authenticate" ]_vars

\* ------------------------------------------------------- the accept loop
\* The listener is inside the loop of start.
InAcceptLoop ==
    caller["listener"].pc \in {"accept", "execute", "fetch_add", "send", "rejected"}

\* C30: an accept error of kind would-block, timed-out, connection-refused
\* or connection-reset leaves the listener in its loop, where the next
\* connection is accepted; any other kind makes start return the error, and
\* from then on no connection is accepted.
C30_AcceptErrors ==
    [][ /\ ( /\ caller["listener"].pc = "accept"
             /\ nextConn' = nextConn
             /\ caller'["listener"] # caller["listener"] )
          => LET kind == caller'["listener"].err IN
             /\ kind \in AcceptErrorKinds
             /\ kind \in {"WouldBlock", "TimedOut", "ConnectionRefused", "ConnectionReset"}
                  => /\ caller'["listener"].pc = "accept"
                     /\ (nextConn <= NumConns => (ENABLED Accept)')
             /\ kind \notin {"WouldBlock", "TimedOut", "ConnectionRefused", "ConnectionReset"}
                  => /\ caller'["listener"].pc = "drop_send"
                     /\ ~(ENABLED Accept)'
        /\ ~InAcceptLoop => (nextConn' = nextConn /\ ~InAcceptLoop') ]_vars

\* a connection accepted after a connection-reset error, and a server
\* that stopped on another error while a client was waiting
C30_Witness ==
    \/ /\ caller["listener"].pc = "execute"
       /\ caller["listener"].err = "ConnectionReset"
    \/ /\ caller["listener"].pc = "returned"
       /\ caller["listener"].err = "ConnectionAborted"
       /\ nextConn > 1
       /\ nextConn <= NumConns

\* ------------------------------------------------------ the route table
AuthEndpoints ==
    {<<"/", "api", "/", "register">>, <<"/", "api", "/", "login">>,
     <<"/", "api", "/", "logout">>}

\* The request about to be routed is not stopped by the auth gate.
PassesGate == UnderProtectedPath => ValidCredential

\* C27: a HEAD request for a path that has a GET route is answered 200; a
\* request that is neither GET nor HEAD, has no route for its method and path
\* and is not for an auth endpoint is answered 404.
C27_MethodsWithoutRoute ==
    [][ ( /\ rt.phase = "request"
          /\ PassesGate
          /\ PathWithoutQuery(rt.req.path) \notin AuthEndpoints )
        => /\ ( /\ rt.req.method = "HEAD"
                /\ <<"GET", PathWithoutQuery(rt.req.path)>> \in DOMAIN rt.router.routes )
              => rt'.resp.status_code = 200
           /\ ( /\ rt.req.method \notin {"GET", "HEAD"}
                /\ <<rt.req.method, PathWithoutQuery(rt.req.path)>>
                      \notin DOMAIN rt.router.routes )
              => rt'.resp.status_code = 404 ]_vars

\* The calls route made for the request, in order, without the file system
\* accesses inside them.
Stages(log) == SelectSeq(log, LAMBDA e : e \notin FsEvents)

\* What the order of the claim gives for the request about to be routed:
\* the calls made and whether the answer is the 404.
ExpectedStages ==
    LET path == PathWithoutQuery(rt.req.path)
        get == rt.req.method = "GET"
        static == <<"/">> \o rt.router.static_dir
        under_static == get /\ (path = static \/ StartsWith(path, static \o <<"/">>))
        found == ContainsDotDot(path) \/ rt.fs # "missing"
        routed == <<rt.req.method, path>> \in DOMAIN rt.router.routes
    IN  IF ~PassesGate THEN [stages |-> <<>>, status |-> {401}]
        ELSE IF path \in AuthEndpoints
        THEN [stages |-> <<"handle_" \o path[4]>>, status |-> {200, 201, 400, 401, 405, 409}]
        ELSE IF under_static /\ found
        THEN [stages |-> <<"serve_static_file">>, status |-> {200, 403, 500}]
        ELSE IF routed
        THEN [stages |-> (IF under_static THEN <<"serve_static_file">> ELSE <<>>)
                         \o <<"route_handler">>,
              status |-> {200}]
        ELSE IF get /\ found
        THEN [stages |-> <<"serve_static_file">>, status |-> {200, 403, 500}]
        ELSE [stages |-> (IF under_static THEN <<"serve_static_file">> ELSE <<>>)
                         \o (IF get THEN <<"serve_static_file">> ELSE <<>>),
              status |-> {404}]

IsParseError400(wire) ==
    /\ wire.status_code = 400
    /\ WireValues(wire, "Content-Type") = {"text/html"}

\* The first line of what the client sent does not split into three tokens.
BadRequestLine ==
    \/ h.input = "blank"
    \/ h.input = "data" /\ h.req.tokens # 3

\* C24: a request whose first line does not split into exactly three
\* tokens is answered with the 400 and Connection: close (if the socket
\* takes it) and the loop ends without another read; a request line of
\* exactly three tokens is never answered with that 400.
C24_RequestLine ==
    (h.pc \in {"read", "ended"} /\ h.input \in {"data", "blank"})
    => /\ BadRequestLine
          => /\ h.pc = "ended"
             /\ h.writable
                  => /\ h.answered
                     /\ IsParseError400(h.wire)
                     /\ WireValues(h.wire, "Connection") = {"close"}
       /\ (~BadRequestLine /\ h.answered) => ~IsParseError400(h.wire)

\* C25: when the read of the next request times out, the 408 is written
\* (it reaches a socket that takes it), the loop ends without another read,
\* and the handler returns to the job that releases the admission slot.
C25_ReadTimeout ==
    h.input = "timeout"
    => /\ h.pc = "ended"
       /\ ResultOf(h.exit) \in {"Ok", "Err"}
       /\ h.writable => (h.answered /\ h.wire.status_code = 408)

\* C26: whatever the client sent that was rejected or failed - a request
\* answered with an error, input that starts with an empty line, a header
\* block cut by the end of the stream, a read that timed out - a response
\* reached the socket if the socket took one.
C26_AlwaysAnswered ==
    ( /\ h.pc \in {"read", "ended"}
      /\ h.input \in {"data", "blank", "eof_in_headers", "timeout"}
      /\ h.writable )
    => /\ h.answered
       /\ h.wire.status_code \in 100..599

\* ------------------------------------------------ session properties
\* The registers of a username that were answered 201, as places in the log.
Created(username) == {i \in DOMAIN rt.log : rt.log[i].username = username}

\* C21: of the registers of one username, on one connection or on several
\* at once, at most one is answered 201 (the others 409), and the password
\* hash stored for the name stays that of the register answered 201.
C21_RegisterOnce ==
    \A u \in SessionUsers :
        /\ Cardinality(Created(u)) <= 1
        /\ \A i \in Created(u) :
              /\ u \in DOMAIN auth_users
              /\ VerifyPassword(rt.log[i].password, auth_users[u])

\* What the gate answers now to GET /admin with this Bearer token, and what
\* logout answers to it.
GateStatus(token) == IF ValidateToken(tokens, token, now.secs).result # "" THEN 200 ELSE 401

LogoutStatus(token) == IF RevokeToken(tokens, token).result THEN 200 ELSE 400

\* C22: a token returned by register or login, while unexpired and not
\* logged out, opens the gate on any connection; once a logout with it has
\* returned 200, a request with it is answered 401 and another logout 400.
C22_LogoutRevokes ==
    /\ \A i \in DOMAIN issued :
          (issued[i].token \notin revoked /\ issued[i].expires_at > now.secs)
          => GateStatus(issued[i].token) = 200
    /\ \A token \in revoked :
          /\ GateStatus(token) = 401
          /\ LogoutStatus(token) = 400

\* C29: a thread that is verifying or hashing a password or generating a
\* token holds neither the auth-user lock nor the token-store lock.
C29_LocksOnlyForMapOps ==
    \A t \in Threads :
        th[t].pc \in {"reg_hash", "reg_token", "login_verify", "login_token", "basic_verify"}
        => th[t].holds = <<>>

\* C32: generate_token never returns a token string that is at that time a
\* live entry of the store (inserted by an earlier call, neither revoked nor
\* expired), whatever the users and the clock readings of the two calls, so
\* the insert never hands one user's live token to another user.
C32_TokensNeverCollide ==
    [][\A t \in Threads :
          (th[t].pc = "gen_insert" /\ th'[t].pc = "done")
          => ~(/\ th[t].token \in DOMAIN tokens
               /\ Unexpired(tokens[th[t].token], now.secs))]_vars

\* The admitted jobs that are queued or running: admitted by execute and
\* not yet at the end of the wrapped job (f() has not ended, or it has
\* returned and the fetch_sub after it is still to come).
HoldsSlot(c) ==
    /\ job[c].adm = "admitted"
    /\ \/ job[c].end = "none"
       \/ \E w \in Workers : wk[w].pc = "dec" /\ wk[w].conn = c

\* C34: in every reachable state the active-connection count equals the
\* number of admitted jobs that are queued or running, and it never goes
\* below zero (the usize never wraps).
C34_CountEqualsJobs ==
    /\ active_connections = Cardinality({c \in Conns : HoldsSlot(c)})
    /\ active_connections >= 0
    /\ active_connections < UsizeMax

\* The connections being processed: their job has been started and f() has
\* not ended.
Processing == {c \in Conns : job[c].runs >= 1 /\ job[c].end = "none"}

C39_WriteFailureEndsLoop ==
    /\ h.write_buffer > 0 => h.pc = "ended"
    /\ h.resent = 0

\* C35: the Connection header of a response that reached the socket agrees
\* with what the server does next, for every Connection header, TE header
\* and version of the request: after Connection: keep-alive the server
\* reads the next request, and the server closes after a response only if
\* the response carried Connection: close.
C35_HeaderMatchesClose ==
    (h.answered /\ h.wire # NoWire) =>
        /\ "keep-alive" \in WireValues(h.wire, "Connection") => h.pc = "read"
        /\ h.pc = "ended" => WireValues(h.wire, "Connection") = {"close"}

\* Thread t is inside a request (between taking it up and its response).
InCall(t) == th[t].pc \notin {"idle", "done"}

\* C36: register, login, logout and gate checks on different connections
\* never deadlock: a thread holds the locks only in the order auth_users
\* then tokens, holds none once its response is returned, and whenever a
\* thread is inside a request some thread inside a request can take a step.
C36_NoDeadlock ==
    /\ \A t \in Threads :
          /\ th[t].holds \in {<<>>, <<"auth_users">>, <<"auth_users", "tokens">>}
          /\ ~InCall(t) => th[t].holds = <<>>
    /\ (\E t \in Threads : InCall(t))
          => \E t \in Threads : InCall(t) /\ ENABLED SessionStep(t)

\* C36's case: a login holds both locks while another thread, inside
\* register, waits for the token lock.
C36_Witness ==
    \E t, o \in Threads :
        /\ th[t].holds = <<"auth_users", "tokens">>
        /\ th[o].pc = "reg_token_insert"
        /\ ~ENABLED SessionStep(o)

\* ------------------------------------------------ stream properties
\* The bytes of the stream from the start of call i on.
RestFrom(i) == SubSeq(bs.sent, bs.results[i].from + 1, Len(bs.sent))

\* C33: the body of the parsed request is exactly the Content-Length bytes
\* the client sent after the blank line, CR and LF bytes included, whenever
\* the client sent them all.
C33_BodyIntact ==
    \A i \in DOMAIN bs.results :
        LET r == bs.results[i] IN
        (r.kind = "Ok" /\ r.parsed.ok /\ r.total_read = r.content_length)
        => r.parsed.body = SubSeq(bs.sent, r.body_at + 1, r.body_at + r.content_length)

\* C37: whatever the sizes of the socket reads, read_request returns what it
\* returns when the rest of the stream arrives in one read: the same text,
\* or the same end of stream.
C37_SplitIndependent ==
    \A i \in DOMAIN bs.results :
        LET r == bs.results[i] IN
        r.kind \in {"Ok", "UnexpectedEof"}
        => /\ OneRead(RestFrom(i), 0, <<>>, 0).kind = r.kind
           /\ OneRead(RestFrom(i), 0, <<>>, 0).text = r.text

\* C37's case: a request whose header lines were cut by the socket reads
\* and whose two-byte body came half from the read buffer and half from a
\* read of its own.
C37_Witness ==
    /\ bs # NoStream /\ bs.pc \in {"idle", "closed"}
    /\ bs.results # <<>>
    /\ LET r == bs.results[Len(bs.results)] IN
          r.kind = "Ok" /\ r.content_length = 2 /\ r.total_read = 2
    /\ bs.split /\ bs.copied = 1 /\ bs.direct = 1

\* C38: over the read_request calls of a connection every byte of the
\* stream is handed out once and in order (the bytes handed out, the unread
\* bytes of the buffer and the bytes still to arrive make up the stream),
\* each call begins where the one before ended, a request with a
\* Content-Length body ends with the last byte of the body, and
\* 0 <= read_pos <= read_end <= buffer size, also after a read error.
C38_NoByteLostOrDoubled ==
    bs # NoStream =>
    /\ 0 <= bs.read_pos /\ bs.read_pos <= bs.read_end /\ bs.read_end <= BufferSize
    /\ (\A i \in DOMAIN bs.results : bs.results[i].kind \in {"Ok", "UnexpectedEof"})
          => bs.raw \o SubSeq(bs.read_buffer, bs.read_pos + 1, bs.read_end) \o bs.wire
             = bs.sent
    /\ \A i \in DOMAIN bs.results :
          LET r == bs.results[i] IN
          /\ r.from = IF i = 1 THEN 0 ELSE bs.results[i - 1].upto
          /\ r.kind = "Ok" => r.upto = r.body_at + r.total_read
          /\ (r.kind = "Ok" /\ r.upto < Len(bs.sent)) => r.total_read = r.content_length

\* C38's case: a request with a body returned while bytes of the next
\* request were already in the read buffer, and the next call returned that
\* request.
C38_Witness ==
    /\ bs # NoStream
    /\ Len(bs.results) = 2 /\ bs.carried
    /\ bs.results[1].kind = "Ok" /\ bs.results[1].content_length > 0
    /\ bs.results[2].kind = "Ok" /\ bs.results[2].content_length > 0
    /\ bs.results[2].parsed.ok

====
